---- MODULE Spec2Model ----
(***************************************************************************)
(* Model of the trade / claim execution and confirmation tracker           *)
(* (useTrade in lib/mutations/use-trade.ts, useClaim in                    *)
(* lib/mutations/use-claim.ts) and of the transaction builders             *)
(* (lib/contracts/trade.ts, lib/contracts/claim.ts) they submit.           *)
(*                                                                         *)
(* One hook instance is modelled.  Every action is one browser task: the   *)
(* handler's state updates are batched, the component re-renders, and the  *)
(* useEffect on [callsStatus, queryClient, address, apiBaseUrl,            *)
(* currentAction] runs when one of its dependencies changed.               *)
(*                                                                         *)
(* The components that call the hook are modelled next to it, each with    *)
(* its own specification: the trade panel (PanelSpec), the card stack      *)
(* (StackSpec), the swipe page (PageSpec) and the bet settings provider    *)
(* (SettingsSpec).                                                         *)
(***************************************************************************)
EXTENDS Integers, Sequences, FiniteSets, TLC

VARIABLES
    hook,           \* which hook this instance is: "useTrade" or "useClaim"
    status,         \* useState<TransactionStatus>
    currentAction,  \* useState<TradeAction | ClaimAction | null>
    bundleId,       \* useState<string | null>
    address,        \* useAccount().address
    apiBaseUrl,     \* useNetwork().apiBaseUrl
    effectDeps,     \* dependency values the effect last ran with
    timers,         \* pending setTimeout(reset, 3000) callbacks, oldest first
    attempts,       \* one record per trade()/claim() call
    bundles,        \* per bundle id: query cache entry and what was done for it
    nAttempts,      \* number of trade()/claim() calls so far
    nBundles,       \* number of bundle ids handed out by the wallet
    envChanges,     \* number of account / network changes so far
    resets,         \* number of reset() calls so far
    built,          \* builder calls made so far: builder, params, result
    rest,           \* REST exchanges so far: what was given, what came out
    \* TradePanel (trade-panel.tsx)
    action,         \* useState<TradeAction>("buy")
    amount,         \* useState(""): the amount input, a string of characters
    selectedOutcomeId, \* prop: the outcome the parent page has selected
    quote,          \* useState<Quote | null>(null)
    isLoadingQuote, \* useState(false)
    quoteError,     \* useState<string | null>(null)
    debounce,       \* pending setTimeout(fetchQuote, 500): <<>> or <<closure>>
    requests,       \* getQuote calls awaiting their response
    nRequests,      \* number of getQuote calls so far
    tradeCall,      \* handleTrade's `await trade(...)`: "none" or "awaiting"
    submitted,      \* parameters handleTrade passed to trade(), in order
    \* CardStack (card-stack.tsx)
    markets,        \* prop: the list of markets, as market ids
    currentIndex,   \* useState(0)
    dragState,      \* useState({ x: 0, y: 0, isActive: false })
    exitDirection,  \* useState<... | null>(null)
    callbacks,      \* per started animation: its timeouts and frame callback
    pointer,        \* the pointer on the top card: down or not, movement, speed
    betPending,     \* prop isPending
    bets,           \* onBet calls so far: market and outcome id
    gestures,       \* skips, rewinds, committed swipes and button bets so far
    nMarketChanges, \* number of changes of the markets prop so far
    \* SwipeMarketsPage (page.tsx)
    quoteMutation,  \* status of useMutation({ mutationFn: getQuote ... })
    \* BetSettingsProvider (bet-settings-context)
    quickBetAmount, \* useState<number>(QUICK_BET_AMOUNT)
    interactionMode,\* useState<InteractionMode>("tap")
    isHydrated,     \* useState(false)
    localStorage    \* the two keys of window.localStorage the provider uses

hookVars == <<hook, status, currentAction, bundleId, address, apiBaseUrl,
              effectDeps, timers, attempts, bundles, nAttempts,
              nBundles, envChanges, resets>>

panelVars == <<action, amount, selectedOutcomeId, quote, isLoadingQuote,
               quoteError, debounce, requests, nRequests, tradeCall, submitted>>

stackVars == <<markets, currentIndex, dragState, exitDirection, callbacks,
               pointer, betPending, bets, gestures, nMarketChanges>>

pageVars == <<quoteMutation>>

settingsVars == <<quickBetAmount, interactionMode, isHydrated, localStorage>>

uiVars == <<panelVars, stackVars, pageVars, settingsVars>>

vars == <<hook, status, currentAction, bundleId, address, apiBaseUrl,
          effectDeps, timers, attempts, bundles, nAttempts,
          nBundles, envChanges, resets, built, rest,
          panelVars, stackVars, pageVars, settingsVars>>

-----------------------------------------------------------------------------
(* Bounds of the model *)

MaxAttempts == 2
MaxPolls == 2
MaxEnvChanges == 1
MaxResets == 1
MaxBuilds == 3
MaxExchanges == 2
MaxQuoteRequests == 2
MaxSubmits == 1
MaxGestures == 2
MaxMarketChanges == 2

-----------------------------------------------------------------------------
(* Values *)

Null == "null"
Undefined == "undefined"

USDC_ADDRESS == "0x84A71ccD554Cc1b02749b35d22F684CC8ec987e1"
PENGU_ADDRESS == "0x9eBe3A824Ca958e4b3Da772D2065518F009CBa62"
PREDICTION_MARKET == "0x3e0F5F8F5Fb043aBFA475C0308417Bf72c463289"
REFERRAL_CODE == ""

\* imported by the bet settings provider from lib/config; the default before
\* anything is loaded, one of the presets the profile page offers
QUICK_BET_AMOUNT == 5
USER == "0xUSER"
DefaultTokenDecimals == 6

TransactionStatus ==
    {"idle", "pending_approval", "approving", "pending_signature", "confirming",
     "confirmed", "failed"}

AttemptIds == 1..MaxAttempts

\* The opaque id the wallet returns for its n-th bundle.
BundleIdOf(n) == "bundle-" \o ToString(n)
BundleIds == {BundleIdOf(n) : n \in 1..MaxAttempts}

TradeActions == {"buy", "sell"}
ClaimActions == {"claim_winnings", "claim_voided"}
Origins == {"panel", "swipe", "claim"}

-----------------------------------------------------------------------------
(* Transaction builders (lib/contracts/trade.ts, lib/contracts/claim.ts).   *)
(* A human amount is a non-negative JavaScript number, written as its     *)
(* decimal expansion [int |-> integer part, frac |-> fraction digits].     *)

Amount(i, f) == [int |-> i, frac |-> f]

RECURSIVE Pow10(_)
Pow10(n) == IF n = 0 THEN 1 ELSE 10 * Pow10(n - 1)

RECURSIVE DigitsValue(_)
DigitsValue(ds) ==
    IF Len(ds) = 0 THEN 0
    ELSE 10 * DigitsValue(SubSeq(ds, 1, Len(ds) - 1)) + ds[Len(ds)]

RECURSIVE stripTrailingZeros(_)
stripTrailingZeros(ds) ==
    IF Len(ds) > 0 /\ ds[Len(ds)] = 0
    THEN stripTrailingZeros(SubSeq(ds, 1, Len(ds) - 1))
    ELSE ds

\* Number.prototype.toString(): a non-zero number below 10^-6 is written in
\* exponent notation ("1e-7"), any other number of the modelled range as
\* plain decimal digits without trailing zeros.
toString(v) ==
    LET f == stripTrailingZeros(v.frac)
    IN  [exp |-> v.int = 0 /\ Len(f) >= 7 /\ \A i \in 1..6 : f[i] = 0,
         int |-> v.int,
         frac |-> f]

\* parseUnits throws on a string that is not plain decimal digits
parseUnitsThrows(s) == s.exp

\* Outcome of a builder call: the returned call list, or a thrown error
Returned(calls) == [threw |-> FALSE, calls |-> calls]
Thrown == [threw |-> TRUE, calls |-> <<>>]

\* viem parseUnits(value, decimals): scale the decimal string by 10^decimals;
\* a fraction longer than `decimals` is rounded half-up at the last kept digit.
parseUnits(v, decimals) ==
    IF Len(v.frac) <= decimals
    THEN v.int * Pow10(decimals)
         + DigitsValue(v.frac) * Pow10(decimals - Len(v.frac))
    ELSE v.int * Pow10(decimals)
         + DigitsValue(SubSeq(v.frac, 1, decimals))
         + (IF v.frac[decimals + 1] >= 5 THEN 1 ELSE 0)

\* encodeFunctionData({abi, functionName, args}): the ABI encoding is
\* injective in (functionName, args), which is what the model keeps.
encodeFunctionData(functionName, args) == [fn |-> functionName, args |-> args]

TransactionCall(to, data) == [to |-> to, data |-> data]

\* Variant: the buy call is pushed before the approve call
buildBuyTransactionBuyFirst(params) ==
    LET value == toString(params.value)
        minShares == toString(params.minShares)
        valueInDecimals == parseUnits(value, params.tokenDecimals)
        minSharesInDecimals == parseUnits(minShares, params.tokenDecimals)
    IN  IF parseUnitsThrows(value) \/ parseUnitsThrows(minShares) THEN Thrown
        ELSE Returned(
         <<TransactionCall(params.predictionMarketAddress,
                          encodeFunctionData("referralBuy",
                              <<params.marketId, params.outcomeId,
                                minSharesInDecimals, valueInDecimals, "">>)),
          TransactionCall(params.tokenAddress,
                          encodeFunctionData("approve",
                              <<params.predictionMarketAddress, valueInDecimals>>))>>)

\* Variant: the approve amount is the scaled shares threshold
buildBuyTransactionApproveThreshold(params) ==
    LET referralCode == IF params.referralCode = Undefined THEN ""
                        ELSE params.referralCode
        value == toString(params.value)
        minShares == toString(params.minShares)
        valueInDecimals == parseUnits(value, params.tokenDecimals)
        minSharesInDecimals == parseUnits(minShares, params.tokenDecimals)
        approveData == encodeFunctionData("approve",
                          <<params.predictionMarketAddress, minSharesInDecimals>>)
        buyData == encodeFunctionData("referralBuy",
                          <<params.marketId, params.outcomeId,
                            minSharesInDecimals, valueInDecimals, referralCode>>)
    IN  IF parseUnitsThrows(value) \/ parseUnitsThrows(minShares) THEN Thrown
        ELSE Returned(<<TransactionCall(params.tokenAddress, approveData),
                        TransactionCall(params.predictionMarketAddress, buyData)>>)

buildBuyTransaction(params) ==
    LET referralCode == IF params.referralCode = Undefined THEN ""
                        ELSE params.referralCode
        value == toString(params.value)
        minShares == toString(params.minShares)
        valueInDecimals == parseUnits(value, params.tokenDecimals)
        minSharesInDecimals == parseUnits(minShares, params.tokenDecimals)
        approveData == encodeFunctionData("approve",
                          <<params.predictionMarketAddress, valueInDecimals>>)
        buyData == encodeFunctionData("referralBuy",
                          <<params.marketId, params.outcomeId,
                            minSharesInDecimals, valueInDecimals, referralCode>>)
    IN  IF parseUnitsThrows(value) \/ parseUnitsThrows(minShares) THEN Thrown
        ELSE Returned(<<TransactionCall(params.tokenAddress, approveData),
                        TransactionCall(params.predictionMarketAddress, buyData)>>)

\* Variant: value and maxShares change places in the sell call
buildSellTransactionSwapped(params) ==
    LET referralCode == IF params.referralCode = Undefined THEN ""
                        ELSE params.referralCode
        value == toString(params.value)
        maxShares == toString(params.maxShares)
        valueInDecimals == parseUnits(value, params.tokenDecimals)
        maxSharesInDecimals == parseUnits(maxShares, params.tokenDecimals)
        sellData == encodeFunctionData("referralSell",
                          <<params.marketId, params.outcomeId,
                            maxSharesInDecimals, valueInDecimals, referralCode>>)
    IN  IF parseUnitsThrows(value) \/ parseUnitsThrows(maxShares) THEN Thrown
        ELSE Returned(<<TransactionCall(params.predictionMarketAddress, sellData)>>)

buildSellTransaction(params) ==
    LET referralCode == IF params.referralCode = Undefined THEN ""
                        ELSE params.referralCode
        value == toString(params.value)
        maxShares == toString(params.maxShares)
        valueInDecimals == parseUnits(value, params.tokenDecimals)
        maxSharesInDecimals == parseUnits(maxShares, params.tokenDecimals)
        sellData == encodeFunctionData("referralSell",
                          <<params.marketId, params.outcomeId,
                            valueInDecimals, maxSharesInDecimals, referralCode>>)
    IN  IF parseUnitsThrows(value) \/ parseUnitsThrows(maxShares) THEN Thrown
        ELSE Returned(<<TransactionCall(params.predictionMarketAddress, sellData)>>)

\* Variant: a sell is dispatched with the value as its shares limit
buildTradeTransactionValueAsLimit(params) ==
    IF params.action = "buy"
    THEN buildBuyTransaction(
            [marketId |-> params.marketId,
             outcomeId |-> params.outcomeId,
             value |-> params.value,
             minShares |-> params.sharesThreshold,
             tokenAddress |-> params.tokenAddress,
             tokenDecimals |-> params.tokenDecimals,
             predictionMarketAddress |-> params.predictionMarketAddress,
             referralCode |-> params.referralCode])
    ELSE buildSellTransaction(
            [marketId |-> params.marketId,
             outcomeId |-> params.outcomeId,
             value |-> params.value,
             maxShares |-> params.value,
             tokenDecimals |-> params.tokenDecimals,
             predictionMarketAddress |-> params.predictionMarketAddress,
             referralCode |-> params.referralCode])

buildTradeTransaction(params) ==
    IF params.action = "buy"
    THEN buildBuyTransaction(
            [marketId |-> params.marketId,
             outcomeId |-> params.outcomeId,
             value |-> params.value,
             minShares |-> params.sharesThreshold,
             tokenAddress |-> params.tokenAddress,
             tokenDecimals |-> params.tokenDecimals,
             predictionMarketAddress |-> params.predictionMarketAddress,
             referralCode |-> params.referralCode])
    ELSE buildSellTransaction(
            [marketId |-> params.marketId,
             outcomeId |-> params.outcomeId,
             value |-> params.value,
             maxShares |-> params.sharesThreshold,
             tokenDecimals |-> params.tokenDecimals,
             predictionMarketAddress |-> params.predictionMarketAddress,
             referralCode |-> params.referralCode])

\* Variant: the encoded id depends on how many builder calls came before
buildClaimWinningsTransactionCounting(params) ==
    Returned(<<TransactionCall(params.predictionMarketAddress,
                  encodeFunctionData("claimWinnings",
                                     <<params.marketId + Len(built)>>))>>)

buildClaimWinningsTransaction(params) ==
    Returned(<<TransactionCall(params.predictionMarketAddress,
                  encodeFunctionData("claimWinnings", <<params.marketId>>))>>)

\* Variant: the ids change places in the voided-shares call
buildClaimVoidedTransactionSwapped(params) ==
    Returned(<<TransactionCall(params.predictionMarketAddress,
                  encodeFunctionData("claimVoidedOutcomeShares",
                                     <<params.outcomeId, params.marketId>>))>>)

buildClaimVoidedTransaction(params) ==
    Returned(<<TransactionCall(params.predictionMarketAddress,
                  encodeFunctionData("claimVoidedOutcomeShares",
                                     <<params.marketId, params.outcomeId>>))>>)

buildClaimTransaction(params) ==
    IF params.action = "claim_winnings"
    THEN buildClaimWinningsTransaction(
            [marketId |-> params.marketId,
             predictionMarketAddress |-> params.predictionMarketAddress])
    ELSE buildClaimVoidedTransaction(
            [marketId |-> params.marketId,
             outcomeId |-> params.outcomeId,
             predictionMarketAddress |-> params.predictionMarketAddress])

-----------------------------------------------------------------------------
(* Tracker state *)

NoAttempt ==
    [pc |-> "none",          \* none | awaiting | submitted | thrown
     action |-> Null,        \* params.action
     origin |-> Null,        \* which caller started it
     sends |-> 0,            \* sendCallsAsync calls made for it
     calls |-> <<>>,         \* the calls of its pending sendCallsAsync request
     error |-> Null,         \* message of the error it threw
     notified |-> FALSE,     \* a failure toast was shown for its thrown error
     bundle |-> Null,        \* bundle id its submission returned
     startStatus |-> Null,   \* status when trade()/claim() was called
     solo |-> FALSE,         \* no other submission was in flight during it
     sawConfirm |-> FALSE,   \* status was confirming/confirmed since its start
     endedFailed |-> FALSE,  \* status was "failed" right after it threw
     open |-> FALSE]         \* it threw; no reset to idle, no later attempt yet

NoBundle ==
    [snap |-> Undefined,     \* query cache data?.status for this id
     polls |-> 0,            \* getCallsStatus requests issued for this id
     okToasts |-> 0,         \* toast.success calls of the effect
     errToasts |-> 0,        \* toast.error calls of the effect
     labels |-> {},          \* titles of the success toasts
     marketInval |-> 0,      \* invalidateQueries(marketKeys.all) calls
     portfolioInval |-> 0]   \* invalidateQueries(portfolioKeys.user(..)) calls

NoCallsStatus == [id |-> Null, status |-> Undefined]

\* useCallsStatus({id: bundleId, query: {enabled: !!bundleId, ...}}).data,
\* identified by the query key (the id) and the cached status.
callsStatusOf(bid, bnd) ==
    IF bid = Null \/ bnd[bid].snap = Undefined THEN NoCallsStatus
    ELSE [id |-> bid, status |-> bnd[bid].snap]

callsStatus == callsStatusOf(bundleId, bundles)

\* query.enabled
enabled(bid) == bid # Null

\* query.refetchInterval in milliseconds; NoRefetch stands for `false`
NoRefetch == 0
PollIntervalMs == 1000

\* Variant: polling only stops on "success"
refetchIntervalSuccessOnly(txStatus) ==
    IF txStatus = "success" THEN NoRefetch ELSE PollIntervalMs

refetchInterval(txStatus) ==
    IF txStatus = "success" \/ txStatus = "failure" THEN NoRefetch
    ELSE PollIntervalMs

\* Title of the toast.success of the effect
successTitle(h, ca) ==
    IF h = "useTrade"
    THEN (IF ca = "buy" THEN "Purchase confirmed!" ELSE "Sale confirmed!")
    ELSE (IF ca = "claim_winnings" THEN "Winnings claimed!"
          ELSE "Voided shares claimed!")

\* Title the success toast of a bundle produced by an attempt with this action
\* is meant to carry
titleOfAction(act) ==
    CASE act = "buy" -> "Purchase confirmed!"
      [] act = "sell" -> "Sale confirmed!"
      [] act = "claim_winnings" -> "Winnings claimed!"
      [] OTHER -> "Voided shares claimed!"

ownerOf(bid, att) == CHOOSE a \in AttemptIds : att[a].bundle = bid

effectDepsOf(bid, bnd, addr, api, ca) ==
    [callsStatus |-> callsStatusOf(bid, bnd), address |-> addr,
     apiBaseUrl |-> api, currentAction |-> ca]

\* History bookkeeping of the attempts after a task left the status at st
observe(att, st) ==
    [a \in AttemptIds |->
        IF att[a].pc = "awaiting" \/ (att[a].pc = "thrown" /\ att[a].open)
        THEN [att[a] EXCEPT
                !.sawConfirm = @ \/ st \in {"confirming", "confirmed"},
                !.endedFailed = IF att[a].pc = "thrown" /\ attempts[a].pc # "thrown"
                                THEN st = "failed" ELSE @,
                !.open = IF att[a].pc = "thrown" THEN st # "idle" ELSE @]
        ELSE att[a]]

\* Variant: the failure branch of the effect also invalidates the markets
RenderInvalidatesOnFailure(deps0, st, ca, bid, addr, api, bnd, tm, att) ==
    LET deps == effectDepsOf(bid, bnd, addr, api, ca)
        run == deps # deps0
        txStatus == deps.callsStatus.status
        onSuccess == run /\ txStatus = "success"
        onFailure == run /\ txStatus = "failure"
    IN  [status |-> IF onSuccess THEN "confirmed"
                    ELSE IF onFailure THEN "failed" ELSE st,
         bundles |-> IF onSuccess
                     THEN [bnd EXCEPT
                             ![bid].okToasts = @ + 1,
                             ![bid].labels = @ \cup {successTitle(hook, ca)},
                             ![bid].marketInval = @ + 1,
                             ![bid].portfolioInval =
                                 IF addr # Null THEN @ + 1 ELSE @]
                     ELSE IF onFailure
                     THEN [bnd EXCEPT ![bid].errToasts = @ + 1,
                                      ![bid].marketInval = @ + 1]
                     ELSE bnd,
         timers |-> IF onSuccess \/ onFailure
                    THEN Append(tm, ownerOf(bid, att)) ELSE tm,
         deps |-> deps]

\* A render after the batched updates (st, ca, bid, ...): the confirmation
\* effect runs if one of its dependencies changed since its last run (deps0).
\* The result is the state after the effect.
Render(deps0, st, ca, bid, addr, api, bnd, tm, att) ==
    LET deps == effectDepsOf(bid, bnd, addr, api, ca)
        run == deps # deps0
        txStatus == deps.callsStatus.status
        onSuccess == run /\ txStatus = "success"
        onFailure == run /\ txStatus = "failure"
    IN  [status |-> IF onSuccess THEN "confirmed"
                    ELSE IF onFailure THEN "failed" ELSE st,
         bundles |-> IF onSuccess
                     THEN [bnd EXCEPT
                             ![bid].okToasts = @ + 1,
                             ![bid].labels = @ \cup {successTitle(hook, ca)},
                             ![bid].marketInval = @ + 1,
                             ![bid].portfolioInval =
                                 IF addr # Null THEN @ + 1 ELSE @]
                     ELSE IF onFailure
                     THEN [bnd EXCEPT ![bid].errToasts = @ + 1]
                     ELSE bnd,
         timers |-> IF onSuccess \/ onFailure
                    THEN Append(tm, ownerOf(bid, att)) ELSE tm,
         deps |-> deps]

\* End of a task: the batched updates are committed, the component
\* re-renders and the effect runs.
Commit(st, ca, bid, addr, api, bnd, tm, att) ==
    LET r == Render(effectDeps, st, ca, bid, addr, api, bnd, tm, att)
    IN  /\ status' = r.status
        /\ currentAction' = ca
        /\ bundleId' = bid
        /\ address' = addr
        /\ apiBaseUrl' = api
        /\ bundles' = r.bundles
        /\ timers' = r.timers
        /\ attempts' = observe(att, r.status)
        /\ effectDeps' = r.deps

-----------------------------------------------------------------------------
(* Inputs *)

TradeParamsSet ==
    [action : TradeActions,
     marketId : {42},
     outcomeId : {0},
     value : {Amount(10, <<>>), Amount(0, <<0, 0, 0, 0, 0, 0, 1>>)},
     sharesThreshold : {Amount(9, <<5>>)},
     tokenAddress : {"", PENGU_ADDRESS},
     tokenDecimals : {<<>>, <<6>>}]      \* optional: <<>> is undefined

ClaimParamsSet ==
    [action : ClaimActions,
     marketId : {7},
     outcomeId : {<<>>, <<1>>}]          \* optional: <<>> is undefined

-----------------------------------------------------------------------------
(* Error reporting of the hooks and of their callers *)

\* useClaim.onError calls toast.error, useTrade.onError does not
onErrorToasts(h) == h = "useClaim"

\* catch block of the caller of trade(): handleBet (swipe page) calls
\* toast.error("Bet failed"), handleTrade (trade panel) only console.error
callerCatchToasts(origin) == origin = "swipe"

thrown(a, att) ==
    [att EXCEPT ![a].pc = "thrown",
                ![a].calls = <<>>,
                ![a].open = TRUE,
                ![a].notified = onErrorToasts(hook)
                                \/ callerCatchToasts(att[a].origin)]

\* mutation onError: setStatus("failed") and schedule the reset; then the
\* rejected mutateAsync promise reaches the caller's catch block
Throw(a, ca, att) ==
    Commit("failed", ca, bundleId, address, apiBaseUrl, bundles,
           Append(timers, a), thrown(a, att))

\* mutationFn throws after it called setCurrentAction(ca) and setStatus(st).
\* onError runs in a later microtask: React either batches its updates with
\* those of mutationFn (one render), or renders in between, in which case
\* the effect sees the new currentAction before onError sets "failed".
ThrowAfterUpdates(a, st, ca, att, batched) ==
    IF batched
    THEN Throw(a, ca, att)
    ELSE LET r == Render(effectDeps, st, ca, bundleId, address, apiBaseUrl,
                         bundles, timers, att)
             seen == [att EXCEPT ![a].sawConfirm =
                         @ \/ r.status \in {"confirming", "confirmed"}]
         IN  /\ status' = "failed"
             /\ currentAction' = ca
             /\ bundles' = r.bundles
             /\ timers' = Append(r.timers, a)
             /\ attempts' = observe(thrown(a, seen), "failed")
             /\ effectDeps' = r.deps
             /\ UNCHANGED <<bundleId, address, apiBaseUrl>>

\* mutationFn throws new Error(message)
failing(a, att, message) == [att EXCEPT ![a].error = message]

newAttempt(act, origin) ==
    [NoAttempt EXCEPT !.pc = "awaiting", !.action = act, !.origin = origin,
                      !.startStatus = status,
                      !.solo = \A b \in AttemptIds : attempts[b].pc # "awaiting"]

\* Another attempt starts: attempts still waiting for the wallet are no
\* longer alone, and the status no longer shows a thrown attempt's outcome
started(a, rec) ==
    [b \in AttemptIds |->
        IF b = a THEN rec
        ELSE IF attempts[b].pc = "awaiting"
             THEN [attempts[b] EXCEPT !.solo = FALSE]
             ELSE [attempts[b] EXCEPT !.open = FALSE]]

-----------------------------------------------------------------------------
(* Operations *)

\* useTrade: trade(params) -> mutationFn up to `await sendCallsAsync`.
\* abstractClient: whether useAbstractClient().data is defined at the call.
trade(origin, params, abstractClient) ==
    /\ hook = "useTrade"
    /\ nAttempts < MaxAttempts
    /\ origin \in {"panel", "swipe"}
    /\ origin = "swipe" => params.action = "buy"
    /\ LET a == nAttempts + 1
           att == started(a, newAttempt(params.action, origin))
           tokenAddress == IF params.tokenAddress # "" THEN params.tokenAddress
                           ELSE USDC_ADDRESS
           tokenDecimals == IF params.tokenDecimals = <<>>
                            THEN DefaultTokenDecimals ELSE params.tokenDecimals[1]
           tx == buildTradeTransaction(
                       [action |-> params.action,
                        marketId |-> params.marketId,
                        outcomeId |-> params.outcomeId,
                        value |-> params.value,
                        sharesThreshold |-> params.sharesThreshold,
                        tokenAddress |-> tokenAddress,
                        tokenDecimals |-> tokenDecimals,
                        predictionMarketAddress |-> PREDICTION_MARKET,
                        referralCode |-> REFERRAL_CODE])
       IN  /\ nAttempts' = a
           /\ IF address = Null
              THEN Throw(a, currentAction,
                         failing(a, att, "Wallet not connected"))
              ELSE IF ~abstractClient
              THEN Throw(a, currentAction,
                         failing(a, att, "Abstract client not available"))
              ELSE IF tokenAddress = ""
              THEN \E batched \in BOOLEAN :
                      ThrowAfterUpdates(a, status, params.action,
                          failing(a, att, "No token address available for this market"),
                          batched)
              ELSE IF tx.threw
              THEN \E batched \in BOOLEAN :
                      ThrowAfterUpdates(a,
                          IF params.action = "buy" THEN "approving"
                          ELSE "pending_signature",
                          params.action,
                          failing(a, att, "InvalidDecimalNumberError"), batched)
              ELSE Commit("pending_signature", params.action, bundleId,
                          address, apiBaseUrl, bundles, timers,
                          [att EXCEPT ![a].sends = 1,
                                      ![a].calls = tx.calls])
    \* page.tsx:92-97: on the swipe page the call continues handleBet after
    \* `await quoteMutation.mutateAsync(...)` has resolved
    /\ quoteMutation' = IF origin = "swipe" /\ quoteMutation = "pending"
                        THEN "success" ELSE quoteMutation
    /\ UNCHANGED <<built, rest, panelVars, stackVars, settingsVars,
                   hook, nBundles, envChanges, resets>>

\* useClaim: claim(params) -> mutationFn up to `await sendCallsAsync`
claim(params, abstractClient) ==
    /\ hook = "useClaim"
    /\ nAttempts < MaxAttempts
    /\ LET a == nAttempts + 1
           att == started(a, newAttempt(params.action, "claim"))
       IN  /\ nAttempts' = a
           /\ IF address = Null
              THEN Throw(a, currentAction,
                         failing(a, att, "Wallet not connected"))
              ELSE IF ~abstractClient
              THEN Throw(a, currentAction,
                         failing(a, att, "Abstract client not available"))
              ELSE IF params.action = "claim_winnings"
              THEN Commit("pending_signature", params.action, bundleId,
                          address, apiBaseUrl, bundles, timers,
                          [att EXCEPT
                             ![a].sends = 1,
                             ![a].calls = buildClaimTransaction(
                                 [action |-> "claim_winnings",
                                  marketId |-> params.marketId,
                                  predictionMarketAddress |-> PREDICTION_MARKET]).calls])
              ELSE IF params.action = "claim_voided" /\ params.outcomeId # <<>>
              THEN Commit("pending_signature", params.action, bundleId,
                          address, apiBaseUrl, bundles, timers,
                          [att EXCEPT
                             ![a].sends = 1,
                             ![a].calls = buildClaimTransaction(
                                 [action |-> "claim_voided",
                                  marketId |-> params.marketId,
                                  outcomeId |-> params.outcomeId[1],
                                  predictionMarketAddress |-> PREDICTION_MARKET]).calls])
              ELSE \E batched \in BOOLEAN :
                      ThrowAfterUpdates(a, "pending_signature", params.action,
                          failing(a, att, "Invalid claim parameters"), batched)
    /\ UNCHANGED <<built, rest, uiVars, hook, nBundles, envChanges, resets>>

\* Variant: a bundle id that is still tracked is not overwritten
sendCallsResolveKeepFirst(a) ==
    /\ attempts[a].pc = "awaiting"
    /\ LET id == BundleIdOf(nBundles + 1)
       IN  /\ nBundles' = nBundles + 1
           /\ Commit("confirming", currentAction,
                     IF bundleId = Null THEN id ELSE bundleId,
                     address, apiBaseUrl, bundles, timers,
                     [attempts EXCEPT ![a].pc = "submitted",
                                      ![a].calls = <<>>,
                                      ![a].bundle = id,
                                      ![a].sawConfirm = FALSE])
    /\ UNCHANGED <<built, rest, uiVars, hook, nAttempts, envChanges, resets>>

\* sendCallsAsync resolves: setBundleId(result.id); setStatus("confirming")
sendCallsResolve(a) ==
    /\ attempts[a].pc = "awaiting"
    /\ LET id == BundleIdOf(nBundles + 1)
       IN  /\ nBundles' = nBundles + 1
           /\ Commit("confirming", currentAction, id, address, apiBaseUrl,
                     bundles, timers,
                     [attempts EXCEPT ![a].pc = "submitted",
                                      ![a].calls = <<>>,
                                      ![a].bundle = id,
                                      ![a].sawConfirm = FALSE])
    /\ UNCHANGED <<built, rest, uiVars, hook, nAttempts, envChanges, resets>>

\* Variant: a rejected submission is sent to the wallet once more
sendCallsRejectRetry(a) ==
    /\ attempts[a].pc = "awaiting"
    /\ IF attempts[a].sends < 2
       THEN Commit(status, currentAction, bundleId, address, apiBaseUrl,
                   bundles, timers, [attempts EXCEPT ![a].sends = @ + 1])
       ELSE Throw(a, currentAction, failing(a, attempts, "sendCallsAsync rejected"))
    /\ UNCHANGED <<built, rest, uiVars, hook, nAttempts, nBundles, envChanges, resets>>

\* sendCallsAsync rejects (user rejects signing, wallet error): onError
sendCallsReject(a) ==
    /\ attempts[a].pc = "awaiting"
    /\ Throw(a, currentAction, failing(a, attempts, "sendCallsAsync rejected"))
    /\ UNCHANGED <<built, rest, uiVars, hook, nAttempts, nBundles, envChanges, resets>>

\* One status request of useCallsStatus for the tracked id and its answer.
\* "error" is a request that failed and returned no data.
pollCallsStatus(result) ==
    /\ enabled(bundleId)
    /\ refetchInterval(bundles[bundleId].snap) # NoRefetch
    /\ result \in {"pending", "error"} => bundles[bundleId].polls < MaxPolls
    /\ Commit(status, currentAction, bundleId, address, apiBaseUrl,
              [bundles EXCEPT ![bundleId].polls = @ + 1,
                              ![bundleId].snap = IF result = "error" THEN @
                                                 ELSE result],
              timers, attempts)
    /\ UNCHANGED <<built, rest, uiVars, hook, nAttempts, nBundles, envChanges, resets>>

\* Variant: the callback does not call setCurrentAction(null)
resetTimerKeepsAction ==
    /\ timers # <<>>
    /\ Commit("idle", currentAction, Null, address, apiBaseUrl, bundles,
              Tail(timers), attempts)
    /\ UNCHANGED <<built, rest, uiVars, hook, nAttempts, nBundles, envChanges, resets>>

\* Variant: the callback does not call setBundleId(null)
resetTimerKeepsBundle ==
    /\ timers # <<>>
    /\ Commit("idle", Null, bundleId, address, apiBaseUrl, bundles,
              Tail(timers), attempts)
    /\ UNCHANGED <<built, rest, uiVars, hook, nAttempts, nBundles, envChanges, resets>>

\* A setTimeout(..., 3000) callback fires: the oldest pending one first
resetTimer ==
    /\ timers # <<>>
    /\ Commit("idle", Null, Null, address, apiBaseUrl, bundles,
              Tail(timers), attempts)
    /\ UNCHANGED <<built, rest, uiVars, hook, nAttempts, nBundles, envChanges, resets>>

\* reset() of the hook's result
reset ==
    /\ resets < MaxResets
    /\ resets' = resets + 1
    /\ Commit("idle", Null, Null, address, apiBaseUrl, bundles, timers, attempts)
    /\ UNCHANGED <<built, rest, uiVars, hook, nAttempts, nBundles, envChanges>>

\* The wallet account changes (connect / disconnect): useAccount().address
accountChange ==
    /\ envChanges < MaxEnvChanges
    /\ envChanges' = envChanges + 1
    /\ Commit(status, currentAction, bundleId,
              IF address = Null THEN USER ELSE Null,
              apiBaseUrl, bundles, timers, attempts)
    /\ UNCHANGED <<built, rest, uiVars, hook, nAttempts, nBundles, resets>>

\* NetworkProvider.toggleNetwork: apiBaseUrl follows the selected network
toggleNetwork ==
    /\ envChanges < MaxEnvChanges
    /\ envChanges' = envChanges + 1
    /\ Commit(status, currentAction, bundleId, address,
              IF apiBaseUrl = "testnet" THEN "mainnet" ELSE "testnet",
              bundles, timers, attempts)
    /\ UNCHANGED <<built, rest, uiVars, hook, nAttempts, nBundles, resets>>

-----------------------------------------------------------------------------

Init ==
    /\ hook \in {"useTrade", "useClaim"}
    /\ status = "idle"
    /\ currentAction = Null
    /\ bundleId = Null
    /\ address \in {Null, USER}
    /\ apiBaseUrl = "testnet"
    /\ effectDeps = effectDepsOf(Null, [b \in BundleIds |-> NoBundle],
                                 address, apiBaseUrl, Null)
    /\ timers = <<>>
    /\ attempts = [a \in AttemptIds |-> NoAttempt]
    /\ bundles = [b \in BundleIds |-> NoBundle]
    /\ nAttempts = 0
    /\ nBundles = 0
    /\ envChanges = 0
    /\ resets = 0
    /\ built = <<>>
    /\ rest = <<>>
    /\ action = "buy"
    /\ amount = <<>>
    /\ selectedOutcomeId = 0
    /\ quote = <<>>
    /\ isLoadingQuote = FALSE
    /\ quoteError = Null
    /\ debounce = <<[amount |-> <<>>, action |-> "buy", outcomeId |-> 0]>>
    /\ requests = <<>>
    /\ nRequests = 0
    /\ tradeCall = "none"
    /\ submitted = <<>>
    /\ markets = <<>>
    /\ currentIndex = 0
    /\ dragState = [x |-> 0, y |-> 0, isActive |-> FALSE]
    /\ exitDirection = Null
    /\ callbacks = <<>>
    /\ pointer = [down |-> FALSE, x |-> 0, fast |-> FALSE]
    /\ betPending = FALSE
    /\ bets = <<>>
    /\ gestures = [skip |-> 0, rewind |-> 0, swipe |-> 0, tap |-> 0]
    /\ nMarketChanges = 0
    /\ quoteMutation = "idle"
    /\ quickBetAmount = QUICK_BET_AMOUNT
    /\ interactionMode = "tap"
    /\ isHydrated = FALSE
    /\ localStorage = [amount |-> Null, mode |-> Null]

Next ==
    \/ \E o \in Origins, p \in TradeParamsSet, c \in BOOLEAN : trade(o, p, c)
    \/ \E p \in ClaimParamsSet, c \in BOOLEAN : claim(p, c)
    \/ \E a \in AttemptIds : sendCallsResolve(a)
    \/ \E a \in AttemptIds : sendCallsReject(a)
    \/ \E r \in {"pending", "success", "failure", "error"} : pollCallsStatus(r)
    \/ resetTimer
    \/ reset
    \/ accountChange
    \/ toggleNetwork

Spec == Init /\ [][Next]_vars

\* The browser runs every pending timer callback: a scheduled reset is not
\* postponed forever.
FairSpec == Spec /\ WF_vars(resetTimer)

-----------------------------------------------------------------------------
(* Flags the hook returns to its callers (use-trade.ts:220-232).  A state   *)
(* of the tracker is a moment between two status requests, except before    *)
(* the first answer for a bundle, when that first request is in flight.     *)

\* useMutation().isPending: the latest mutate() call has not settled;
\* useSendCalls().isPending: the latest sendCallsAsync call has not settled
isPending ==
    \/ nAttempts > 0 /\ attempts[nAttempts].pc = "awaiting"
    \/ \E a \in AttemptIds :
          /\ attempts[a].pc = "awaiting"
          /\ \A b \in AttemptIds : (b > a) => attempts[b].sends = 0

\* useCallsStatus().isFetching
isPolling == enabled(bundleId) /\ bundles[bundleId].polls = 0

isConfirmed == callsStatus.status = "success"
isFailed == callsStatus.status = "failure"

isConfirming ==
    /\ isPolling \/ callsStatus.status = "pending"
    /\ bundleId # Null
    /\ ~isConfirmed
    /\ ~isFailed

-----------------------------------------------------------------------------
(* REST client (lib/myriad-api.ts).  A key is the sequence of its           *)
(* characters; a JSON value is an object (keys and their values, in         *)
(* order), an array (items) or a primitive (value).                         *)

LowerCase == <<"a", "b", "c", "d", "e", "f", "g", "h", "i", "j", "k", "l", "m",
               "n", "o", "p", "q", "r", "s", "t", "u", "v", "w", "x", "y", "z">>
UpperCase == <<"A", "B", "C", "D", "E", "F", "G", "H", "I", "J", "K", "L", "M",
               "N", "O", "P", "Q", "R", "S", "T", "U", "V", "W", "X", "Y", "Z">>
Digits == {"0", "1", "2", "3", "4", "5", "6", "7", "8", "9"}

IsLower(c) == \E i \in 1..26 : LowerCase[i] = c
IsUpper(c) == \E i \in 1..26 : UpperCase[i] = c
toUpperCase(c) ==
    IF IsLower(c) THEN UpperCase[CHOOSE i \in 1..26 : LowerCase[i] = c] ELSE c
toLowerCase(c) ==
    IF IsUpper(c) THEN LowerCase[CHOOSE i \in 1..26 : UpperCase[i] = c] ELSE c

Prim(v) == [kind |-> "value", keys |-> <<>>, items |-> <<>>, value |-> v]
Arr(items) == [kind |-> "array", keys |-> <<>>, items |-> items, value |-> ""]
Obj(keys, items) == [kind |-> "object", keys |-> keys, items |-> items, value |-> ""]

\* key.replace(/_([a-z])/g, (g) => g[1].toUpperCase())
RECURSIVE camelKey(_)
camelKey(key) ==
    IF Len(key) = 0 THEN <<>>
    ELSE IF key[1] = "_" /\ Len(key) >= 2 /\ IsLower(key[2])
    THEN <<toUpperCase(key[2])>> \o camelKey(SubSeq(key, 3, Len(key)))
    ELSE <<key[1]>> \o camelKey(Tail(key))

\* result[camelKey] = value: a key already present keeps its place
setProperty(obj, key, v) ==
    IF \E j \in 1..Len(obj.keys) : obj.keys[j] = key
    THEN Obj(obj.keys,
             [j \in 1..Len(obj.keys) |->
                 IF obj.keys[j] = key THEN v ELSE obj.items[j]])
    ELSE Obj(Append(obj.keys, key), Append(obj.items, v))

RECURSIVE toCamelCase(_)
RECURSIVE reduceKeys(_, _, _)
reduceKeys(obj, i, result) ==
    IF i > Len(obj.keys) THEN result
    ELSE reduceKeys(obj, i + 1,
                    setProperty(result, camelKey(obj.keys[i]),
                                toCamelCase(obj.items[i])))

toCamelCase(obj) ==
    IF obj.kind = "array"
    THEN Arr([i \in 1..Len(obj.items) |-> toCamelCase(obj.items[i])])
    ELSE IF obj.kind = "object"
    THEN reduceKeys(obj, 1, Obj(<<>>, <<>>))
    ELSE obj

\* key.replace(/[A-Z]/g, (letter) => `_${letter.toLowerCase()}`)
RECURSIVE snakeKey(_)
snakeKey(key) ==
    IF Len(key) = 0 THEN <<>>
    ELSE IF IsUpper(key[1])
    THEN <<"_", toLowerCase(key[1])>> \o snakeKey(Tail(key))
    ELSE <<key[1]>> \o snakeKey(Tail(key))

Param(key, value) == [key |-> key, value |-> value]

\* apiGet: the query string built from params
RECURSIVE searchParams(_)
searchParams(params) ==
    IF Len(params) = 0 THEN <<>>
    ELSE IF Head(params).value \notin {Undefined, Null, ""}
    THEN <<Param(snakeKey(Head(params).key), Head(params).value)>>
         \o searchParams(Tail(params))
    ELSE searchParams(Tail(params))

\* apiGet: response.ok ? response.json() : throw new MyriadApiError(...)
apiGet(params, ok, response) ==
    [query |-> searchParams(params), threw |-> ~ok,
     received |-> IF ok THEN response ELSE Prim("MyriadApiError")]

DEFAULT_PAGE_SIZE == "20"

k_page == <<"p", "a", "g", "e">>
k_limit == <<"l", "i", "m", "i", "t">>
k_sort == <<"s", "o", "r", "t">>
k_order == <<"o", "r", "d", "e", "r">>
k_networkId == <<"n", "e", "t", "w", "o", "r", "k", "I", "d">>
k_state == <<"s", "t", "a", "t", "e">>
k_tokenAddress == <<"t", "o", "k", "e", "n", "A", "d", "d", "r", "e", "s", "s">>
k_topics == <<"t", "o", "p", "i", "c", "s">>
k_keyword == <<"k", "e", "y", "w", "o", "r", "d">>
k_marketId == <<"m", "a", "r", "k", "e", "t", "I", "d">>
k_marketSlug == <<"m", "a", "r", "k", "e", "t", "S", "l", "u", "g">>
k_since == <<"s", "i", "n", "c", "e">>
k_until == <<"u", "n", "t", "i", "l">>
k_id == <<"i", "d">>
k_title == <<"t", "i", "t", "l", "e">>
k_image_url == <<"i", "m", "a", "g", "e", "_", "u", "r", "l">>
k_volume_24h == <<"v", "o", "l", "u", "m", "e", "_", "2", "4", "h">>
k_data == <<"d", "a", "t", "a">>
k_pagination == <<"p", "a", "g", "i", "n", "a", "t", "i", "o", "n">>
k_total_pages == <<"t", "o", "t", "a", "l", "_", "p", "a", "g", "e", "s">>
k_has_next == <<"h", "a", "s", "_", "n", "e", "x", "t">>

MarketRecords ==
    {Obj(<<k_id, k>>, <<Prim("1"), Prim("5")>>) :
        k \in {k_title, k_image_url, k_volume_24h}}

PaginatedResponses ==
    {Obj(<<k_data, k_pagination>>,
         <<Arr(items),
           Obj(<<k_page, k_total_pages, k_has_next>>,
               <<Prim("1"), Prim("3"), Prim("true")>>)>>) :
        items \in {<<>>} \cup {<<m>> : m \in MarketRecords}}

SingleResponses == {Obj(<<k_data>>, <<m>>) : m \in MarketRecords}

\* One exchange: what was sent, what came back, what the caller is given
exchanged(fn, r) ==
    Append(rest, [fn |-> fn, query |-> r.query, threw |-> r.threw,
                  received |-> r.received,
                  delivered |-> IF r.threw THEN r.received
                                ELSE toCamelCase(r.received)])

getMarkets(params, ok, response) ==
    /\ Len(rest) < MaxExchanges
    /\ rest' = exchanged("getMarkets",
                  apiGet(<<Param(k_page, "1"),
                           Param(k_limit, DEFAULT_PAGE_SIZE),
                           Param(k_sort, params.sort),
                           Param(k_order, "desc"),
                           Param(k_networkId, params.networkId),
                           Param(k_state, params.state),
                           Param(k_tokenAddress, params.tokenAddress),
                           Param(k_topics, Undefined),
                           Param(k_keyword, params.keyword)>>,
                         ok, response))
    /\ UNCHANGED <<hookVars, built, uiVars>>

getMarket(slugOrId, networkId, ok, response) ==
    /\ Len(rest) < MaxExchanges
    /\ rest' = exchanged("getMarket",
                  apiGet(IF slugOrId = "id" /\ networkId # Undefined
                         THEN <<Param(k_networkId, networkId)>> ELSE <<>>,
                         ok, response))
    /\ UNCHANGED <<hookVars, built, uiVars>>

getMarketEvents(slugOrId, params, networkId, ok, response) ==
    /\ Len(rest) < MaxExchanges
    /\ rest' = exchanged("getMarketEvents",
                  apiGet(<<Param(k_page, params.page),
                           Param(k_since, params.since),
                           Param(k_networkId,
                                 IF slugOrId = "id" THEN networkId
                                 ELSE Undefined)>>,
                         ok, response))
    /\ UNCHANGED <<hookVars, built, uiVars>>

getUserPortfolio(params, ok, response) ==
    /\ Len(rest) < MaxExchanges
    /\ rest' = exchanged("getUserPortfolio",
                  apiGet(<<Param(k_page, "1"),
                           Param(k_limit, DEFAULT_PAGE_SIZE),
                           Param(k_networkId, params.networkId),
                           Param(k_marketId, params.marketId),
                           Param(k_marketSlug, params.marketSlug),
                           Param(k_tokenAddress, params.tokenAddress)>>,
                         ok, response))
    /\ UNCHANGED <<hookVars, built, uiVars>>

getUserEvents(params, ok, response) ==
    /\ Len(rest) < MaxExchanges
    /\ rest' = exchanged("getUserEvents",
                  apiGet(<<Param(k_page, "1"),
                           Param(k_limit, DEFAULT_PAGE_SIZE),
                           Param(k_marketId, params.marketId),
                           Param(k_networkId, params.networkId),
                           Param(k_since, params.since),
                           Param(k_until, Undefined)>>,
                         ok, response))
    /\ UNCHANGED <<hookVars, built, uiVars>>

MarketsQueryParamsSet ==
    [sort : {"volume_24h"}, networkId : {Undefined, "2741"}, state : {"open"},
     tokenAddress : {Undefined, USDC_ADDRESS}, keyword : {""}]

MarketEventsQueryParamsSet == [page : {Undefined, "2"}, since : {Undefined}]

PortfolioQueryParamsSet ==
    [networkId : {"2741"}, marketId : {Undefined, "42"},
     marketSlug : {Undefined}, tokenAddress : {Undefined, USDC_ADDRESS}]

UserEventsQueryParamsSet ==
    [marketId : {Undefined, "42"}, networkId : {"2741"}, since : {Undefined, "0"}]

RestNext ==
    \/ \E p \in MarketsQueryParamsSet, ok \in BOOLEAN,
          r \in PaginatedResponses : getMarkets(p, ok, r)
    \/ \E s \in {"slug", "id"}, n \in {Undefined, "2741"}, ok \in BOOLEAN,
          r \in SingleResponses : getMarket(s, n, ok, r)
    \/ \E s \in {"slug", "id"}, p \in MarketEventsQueryParamsSet,
          n \in {Undefined, "2741"}, ok \in BOOLEAN,
          r \in PaginatedResponses : getMarketEvents(s, p, n, ok, r)
    \/ \E p \in PortfolioQueryParamsSet, ok \in BOOLEAN,
          r \in PaginatedResponses : getUserPortfolio(p, ok, r)
    \/ \E p \in UserEventsQueryParamsSet, ok \in BOOLEAN,
          r \in PaginatedResponses : getUserEvents(p, ok, r)

RestSpec == Init /\ [][RestNext]_vars

-----------------------------------------------------------------------------
(* The transaction builders called directly (lib/contracts), with a log of  *)
(* every call and what it gave.                                             *)

TinyAmount == Amount(0, <<0, 0, 0, 0, 0, 0, 1>>)      \* 0.0000001

BuyInputs ==
    [marketId : {42}, outcomeId : {0},
     value : {Amount(10, <<>>), TinyAmount},
     minShares : {Amount(9, <<5>>)},
     tokenAddress : {USDC_ADDRESS},
     tokenDecimals : {6, 8},
     predictionMarketAddress : {PREDICTION_MARKET},
     referralCode : {Undefined, "partner"}]

SellInputs ==
    [marketId : {42}, outcomeId : {0},
     value : {Amount(10, <<>>), TinyAmount},
     maxShares : {Amount(10, <<5>>)},
     tokenDecimals : {6, 8},
     predictionMarketAddress : {PREDICTION_MARKET},
     referralCode : {Undefined, "partner"}]

TradeInputs ==
    [action : TradeActions,
     marketId : {42}, outcomeId : {1},
     value : {Amount(10, <<>>), TinyAmount},
     sharesThreshold : {Amount(9, <<5>>)},
     tokenAddress : {PENGU_ADDRESS},
     tokenDecimals : {6},
     predictionMarketAddress : {PREDICTION_MARKET},
     referralCode : {""}]

ClaimWinningsInputs ==
    [marketId : {7, 42}, predictionMarketAddress : {PREDICTION_MARKET}]

ClaimVoidedInputs ==
    [marketId : {7}, outcomeId : {0, 1},
     predictionMarketAddress : {PREDICTION_MARKET}]

ClaimInputs ==
    [action : ClaimActions, marketId : {7}, outcomeId : {1},
     predictionMarketAddress : {PREDICTION_MARKET}]

logged(builder, params, result) ==
    Append(built, [builder |-> builder, params |-> params, result |-> result])

callBuildBuyTransaction(params) ==
    /\ Len(built) < MaxBuilds
    /\ built' = logged("buildBuyTransaction", params,
                       buildBuyTransaction(params))
    /\ UNCHANGED <<hookVars, rest, uiVars>>

callBuildSellTransaction(params) ==
    /\ Len(built) < MaxBuilds
    /\ built' = logged("buildSellTransaction", params,
                       buildSellTransaction(params))
    /\ UNCHANGED <<hookVars, rest, uiVars>>

callBuildTradeTransaction(params) ==
    /\ Len(built) < MaxBuilds
    /\ built' = logged("buildTradeTransaction", params,
                       buildTradeTransaction(params))
    /\ UNCHANGED <<hookVars, rest, uiVars>>

callBuildClaimWinningsTransaction(params) ==
    /\ Len(built) < MaxBuilds
    /\ built' = logged("buildClaimWinningsTransaction", params,
                       buildClaimWinningsTransaction(params))
    /\ UNCHANGED <<hookVars, rest, uiVars>>

callBuildClaimVoidedTransaction(params) ==
    /\ Len(built) < MaxBuilds
    /\ built' = logged("buildClaimVoidedTransaction", params,
                       buildClaimVoidedTransaction(params))
    /\ UNCHANGED <<hookVars, rest, uiVars>>

callBuildClaimTransaction(params) ==
    /\ Len(built) < MaxBuilds
    /\ built' = logged("buildClaimTransaction", params,
                       buildClaimTransaction(params))
    /\ UNCHANGED <<hookVars, rest, uiVars>>

BuilderNext ==
    \/ \E p \in BuyInputs : callBuildBuyTransaction(p)
    \/ \E p \in SellInputs : callBuildSellTransaction(p)
    \/ \E p \in TradeInputs : callBuildTradeTransaction(p)
    \/ \E p \in ClaimWinningsInputs : callBuildClaimWinningsTransaction(p)
    \/ \E p \in ClaimVoidedInputs : callBuildClaimVoidedTransaction(p)
    \/ \E p \in ClaimInputs : callBuildClaimTransaction(p)

BuilderSpec == Init /\ [][BuilderNext]_vars

-----------------------------------------------------------------------------
(* Bet settings (lib/bet-settings-context).  A string is the sequence of    *)
(* its characters; localStorage.getItem gives <<>> for null and <<s>> for   *)
(* the stored string s; a parsed number is <<>> for NaN and <<n>> for n.    *)
(* Amounts are whole numbers.                                               *)

DigitChars == <<"0", "1", "2", "3", "4", "5", "6", "7", "8", "9">>
IsDigit(c) == \E i \in 1..10 : DigitChars[i] = c
digitOf(c) == (CHOOSE i \in 1..10 : DigitChars[i] = c) - 1

\* the longest prefix of s made of digits
RECURSIVE leadingDigits(_)
leadingDigits(s) ==
    IF s # <<>> /\ IsDigit(Head(s))
    THEN <<digitOf(Head(s))>> \o leadingDigits(Tail(s))
    ELSE <<>>

\* parseFloat on strings without a decimal point or an exponent: an
\* optional sign, then the digits up to the first other character
parseFloat(s) ==
    LET negative == s # <<>> /\ Head(s) = "-"
        ds == leadingDigits(IF negative THEN Tail(s) ELSE s)
    IN  IF ds = <<>> THEN <<>>
        ELSE <<IF negative THEN 0 - DigitsValue(ds) ELSE DigitsValue(ds)>>

\* Number.prototype.toString of a positive whole number
RECURSIVE numberToString(_)
numberToString(n) ==
    IF n < 10 THEN <<DigitChars[n + 1]>>
    ELSE numberToString(n \div 10) \o <<DigitChars[(n % 10) + 1]>>

StoredStrings ==
    { <<>>, <<"a", "b", "c">>, <<"0">>, <<"-", "5">>, <<"5", "0">>,
      <<"1", "0", "0", "0">>, <<"5", "0", "0", "0">> }
StoredAmounts == {<<>>} \cup { <<s>> : s \in StoredStrings }
\* what the provider finds stored on mount when the mode was never changed
StoredModes == {<<>>, <<"tap">>, <<"buttons">>}
SetAmounts == {0 - 5, 0, 1, 25, 1000, 1001}
InteractionModes == {"tap", "swipe"}

\* the useEffect that loads both keys on mount
hydrate(storedAmount, storedMode) ==
    /\ ~isHydrated
    /\ LET parsed == IF storedAmount # <<>> /\ storedAmount[1] # <<>>
                     THEN parseFloat(storedAmount[1]) ELSE <<>>
       IN  quickBetAmount' = IF parsed # <<>> /\ parsed[1] > 0
                             THEN parsed[1] ELSE quickBetAmount
    /\ interactionMode' = IF storedMode \in {<<"tap">>, <<"swipe">>}
                          THEN storedMode[1] ELSE interactionMode
    /\ isHydrated' = TRUE
    /\ localStorage' = [amount |-> storedAmount, mode |-> storedMode]
    /\ UNCHANGED <<hookVars, built, rest, panelVars, stackVars, pageVars>>

\* the children, and with them every caller of the setters, are rendered
\* once isHydrated is true
setQuickBetAmount(a) ==
    /\ isHydrated
    /\ IF a > 0 /\ a <= 1000
       THEN /\ quickBetAmount' = a
            /\ localStorage' = [localStorage EXCEPT
                                   !.amount = <<numberToString(a)>>]
       ELSE UNCHANGED <<quickBetAmount, localStorage>>
    /\ UNCHANGED <<interactionMode, isHydrated>>
    /\ UNCHANGED <<hookVars, built, rest, panelVars, stackVars, pageVars>>

setInteractionMode(mode) ==
    /\ isHydrated
    /\ interactionMode' = mode
    /\ localStorage' = [localStorage EXCEPT !.mode = <<mode>>]
    /\ UNCHANGED <<quickBetAmount, isHydrated>>
    /\ UNCHANGED <<hookVars, built, rest, panelVars, stackVars, pageVars>>

SettingsNext ==
    \/ \E a \in StoredAmounts, m \in StoredModes : hydrate(a, m)
    \/ \E a \in SetAmounts : setQuickBetAmount(a)
    \/ \E m \in InteractionModes : setInteractionMode(m)

SettingsSpec == Init /\ [][SettingsNext]_vars

-----------------------------------------------------------------------------
(* Trade panel (components/market/trade-panel.tsx): the form, the debounced *)
(* quote fetch and the submission.  A quote is <<>> for null and <<q>> for  *)
(* the quote q; q.request holds what the request was made for.              *)

AmountInputs == { <<>>, <<"0">>, <<"1", "0">>, <<"2", "5">> }

\* market.outcomes of the market shown: ids and prices (in cents)
PanelOutcomes == <<[id |-> 0, price |-> 60], [id |-> 1, price |-> 0]>>
OutcomeIds == { PanelOutcomes[i].id : i \in DOMAIN PanelOutcomes }

\* selectedOutcome?.price ?? 0
priceOf(outcomeId) ==
    IF \E i \in DOMAIN PanelOutcomes : PanelOutcomes[i].id = outcomeId
    THEN PanelOutcomes[CHOOSE i \in DOMAIN PanelOutcomes :
                          PanelOutcomes[i].id = outcomeId].price
    ELSE 0

\* what a fetchQuote closure has captured
fetchQuote(formAmount, formAction, outcomeId) ==
    [amount |-> formAmount, action |-> formAction, outcomeId |-> outcomeId]

\* the quote the API returns for a request: value is the USD amount asked
quoteOf(request) ==
    [request |-> request, value |-> parseFloat(request.amount)[1]]

\* the effect on [fetchQuote]: clears the pending timer and sets a new one
\* whenever one of the values fetchQuote closes over has changed
rescheduled(formAmount, formAction, outcomeId) ==
    IF <<formAmount, formAction, outcomeId>> = <<amount, action, selectedOutcomeId>>
    THEN debounce
    ELSE <<fetchQuote(formAmount, formAction, outcomeId)>>

\* the amount input's onChange, or a percentage button
setAmount(v) ==
    /\ v # amount
    /\ amount' = v
    /\ debounce' = rescheduled(v, action, selectedOutcomeId)
    /\ UNCHANGED <<action, selectedOutcomeId, quote, isLoadingQuote, quoteError,
                   requests, nRequests, tradeCall, submitted>>
    /\ UNCHANGED <<hookVars, built, rest, stackVars, pageVars, settingsVars>>

\* the Buy / Sell tabs
setAction(a) ==
    /\ a # action
    /\ action' = a
    /\ debounce' = rescheduled(amount, a, selectedOutcomeId)
    /\ UNCHANGED <<amount, selectedOutcomeId, quote, isLoadingQuote, quoteError,
                   requests, nRequests, tradeCall, submitted>>
    /\ UNCHANGED <<hookVars, built, rest, stackVars, pageVars, settingsVars>>

\* the outcome buttons: the parent page changes the selectedOutcomeId prop
onOutcomeChange(o) ==
    /\ o # selectedOutcomeId
    /\ selectedOutcomeId' = o
    /\ debounce' = rescheduled(amount, action, o)
    /\ UNCHANGED <<action, amount, quote, isLoadingQuote, quoteError,
                   requests, nRequests, tradeCall, submitted>>
    /\ UNCHANGED <<hookVars, built, rest, stackVars, pageVars, settingsVars>>

\* the 500 ms timer fires: fetchQuote runs up to `await getQuote(...)`
debounceFires ==
    /\ debounce # <<>>
    /\ debounce' = <<>>
    /\ LET f == debounce[1]
           parsedAmount == parseFloat(f.amount)
       IN  IF parsedAmount = <<>> \/ parsedAmount[1] <= 0
           THEN /\ quote' = <<>>
                /\ UNCHANGED <<isLoadingQuote, quoteError, requests, nRequests>>
           ELSE IF f.action = "sell" /\ priceOf(f.outcomeId) <= 0
           THEN /\ quoteError' = "Invalid price"
                /\ quote' = <<>>
                /\ isLoadingQuote' = FALSE
                /\ UNCHANGED <<requests, nRequests>>
           ELSE /\ nRequests < MaxQuoteRequests
                /\ isLoadingQuote' = TRUE
                /\ quoteError' = Null
                /\ requests' = Append(requests, f)
                /\ nRequests' = nRequests + 1
                /\ UNCHANGED quote
    /\ UNCHANGED <<action, amount, selectedOutcomeId, tradeCall, submitted>>
    /\ UNCHANGED <<hookVars, built, rest, stackVars, pageVars, settingsVars>>

without(s, i) == SubSeq(s, 1, i - 1) \o SubSeq(s, i + 1, Len(s))

\* a getQuote call resolves: setQuote(newQuote), finally setIsLoadingQuote(false)
getQuoteResolve(i) ==
    /\ i \in DOMAIN requests
    /\ quote' = <<quoteOf(requests[i])>>
    /\ isLoadingQuote' = FALSE
    /\ requests' = without(requests, i)
    /\ UNCHANGED <<action, amount, selectedOutcomeId, quoteError, debounce,
                   nRequests, tradeCall, submitted>>
    /\ UNCHANGED <<hookVars, built, rest, stackVars, pageVars, settingsVars>>

\* a getQuote call rejects: the catch block, then the finally block
getQuoteReject(i) ==
    /\ i \in DOMAIN requests
    /\ quoteError' = "Failed to get quote"
    /\ quote' = <<>>
    /\ isLoadingQuote' = FALSE
    /\ requests' = without(requests, i)
    /\ UNCHANGED <<action, amount, selectedOutcomeId, debounce,
                   nRequests, tradeCall, submitted>>
    /\ UNCHANGED <<hookVars, built, rest, stackVars, pageVars, settingsVars>>

\* disabled={!quote || isTrading || isConfirming || isLoadingQuote}; the
\* panel alone is modelled, at moments when no confirmation is being awaited
submitDisabled == quote = <<>> \/ tradeCall = "awaiting" \/ isLoadingQuote

\* a click on the submit button: handleTrade up to `await trade(...)`
handleTrade ==
    /\ ~submitDisabled
    /\ amount # <<>>
    /\ Len(submitted) < MaxSubmits
    /\ submitted' = Append(submitted,
          [action |-> action,
           outcomeId |-> selectedOutcomeId,
           value |-> quote[1].value,
           sharesThreshold |->
               [quote |-> quote[1].request,
                field |-> IF action = "sell" THEN "shares * 1.01"
                          ELSE "sharesThreshold"]])
    /\ tradeCall' = "awaiting"
    /\ UNCHANGED <<action, amount, selectedOutcomeId, quote, isLoadingQuote,
                   quoteError, debounce, requests, nRequests>>
    /\ UNCHANGED <<hookVars, built, rest, stackVars, pageVars, settingsVars>>

\* trade() resolves: the form is reset
tradeResolve ==
    /\ tradeCall = "awaiting"
    /\ tradeCall' = "none"
    /\ amount' = <<>>
    /\ quote' = <<>>
    /\ debounce' = rescheduled(<<>>, action, selectedOutcomeId)
    /\ UNCHANGED <<action, selectedOutcomeId, isLoadingQuote, quoteError,
                   requests, nRequests, submitted>>
    /\ UNCHANGED <<hookVars, built, rest, stackVars, pageVars, settingsVars>>

\* trade() rejects: console.error only
tradeReject ==
    /\ tradeCall = "awaiting"
    /\ tradeCall' = "none"
    /\ UNCHANGED <<action, amount, selectedOutcomeId, quote, isLoadingQuote,
                   quoteError, debounce, requests, nRequests, submitted>>
    /\ UNCHANGED <<hookVars, built, rest, stackVars, pageVars, settingsVars>>

PanelNext ==
    \/ \E v \in AmountInputs : setAmount(v)
    \/ \E a \in TradeActions : setAction(a)
    \/ \E o \in OutcomeIds : onOutcomeChange(o)
    \/ debounceFires
    \/ \E i \in 1..MaxQuoteRequests : getQuoteResolve(i)
    \/ \E i \in 1..MaxQuoteRequests : getQuoteReject(i)
    \/ handleTrade
    \/ tradeResolve
    \/ tradeReject

PanelSpec == Init /\ [][PanelNext]_vars

-----------------------------------------------------------------------------
(* Card stack (components/swipe/card-stack.tsx) with the cards' buttons     *)
(* (components/swipe/swipe-card.tsx).  A market is its id; JavaScript       *)
(* array indices start at 0.  Every setTimeout and requestAnimationFrame    *)
(* callback is a step of its own; the timeouts of one handler call fire in  *)
(* the order of their delays.                                               *)

\* market.outcomes of the markets the API may list (prices in cents)
outcomesOf(market) ==
    CASE market = 1 ->
           <<[id |-> 0, title |-> <<"N", "o">>, price |-> 40],
             [id |-> 1, title |-> <<"Y", "E", "S">>, price |-> 60]>>
      [] market = 2 ->
           <<[id |-> 0, title |-> <<"U", "p">>, price |-> 45],
             [id |-> 1, title |-> <<"D", "o", "w", "n">>, price |-> 55]>>
      [] OTHER ->
           <<[id |-> 0, title |-> <<"A">>, price |-> 20],
             [id |-> 1, title |-> <<"B">>, price |-> 50],
             [id |-> 2, title |-> <<"C">>, price |-> 30]>>

\* the lists the markets prop may hold: the query's data after the expiry
\* filter of the page
MarketLists == { <<>>, <<1>>, <<1, 2>>, <<2, 3>> }

\* String.prototype.toLowerCase
lowerCased(title) == [i \in DOMAIN title |-> toLowerCase(title[i])]

\* Array.prototype.find: <<>> for undefined, <<o>> for the first match
find(outcomes, lowerTitle) ==
    LET hits == { i \in DOMAIN outcomes : lowerCased(outcomes[i].title) = lowerTitle }
    IN  IF hits = {} THEN <<>>
        ELSE <<outcomes[CHOOSE i \in hits : \A j \in hits : i <= j]>>

\* [...outcomes].sort((a, b) => b.price - a.price): stable, price descending
RECURSIVE insertByPrice(_, _)
insertByPrice(sorted, o) ==
    IF sorted = <<>> THEN <<o>>
    ELSE IF Head(sorted).price >= o.price
         THEN <<Head(sorted)>> \o insertByPrice(Tail(sorted), o)
         ELSE <<o>> \o sorted

RECURSIVE sortByPrice(_)
sortByPrice(outcomes) ==
    IF outcomes = <<>> THEN <<>>
    ELSE insertByPrice(sortByPrice(SubSeq(outcomes, 1, Len(outcomes) - 1)),
                       outcomes[Len(outcomes)])

sortBinaryOutcomes(outcomes) ==
    IF Len(outcomes) # 2 THEN sortByPrice(outcomes)
    ELSE LET yesOutcome == find(outcomes, <<"y", "e", "s">>)
             noOutcome == find(outcomes, <<"n", "o">>)
         IN  IF yesOutcome # <<>> /\ noOutcome # <<>>
             THEN yesOutcome \o noOutcome
             ELSE sortByPrice(outcomes)

\* the JavaScript % operator: the result has the sign of the dividend
rem(a, n) == IF a >= 0 THEN a % n ELSE 0 - ((0 - a) % n)

SWIPE_THRESHOLD == 100
abs(x) == IF x < 0 THEN 0 - x ELSE x

NoDrag == [x |-> 0, y |-> 0, isActive |-> FALSE]

\* markets[currentIndex]: <<>> for undefined
currentMarket ==
    IF currentIndex >= 0 /\ currentIndex < Len(markets)
    THEN <<markets[currentIndex + 1]>> ELSE <<>>

\* visibleCards[0]: the card drawn on top, markets[(currentIndex + 0) % length]
topCard == markets[rem(currentIndex, Len(markets)) + 1]

\* the cards are rendered, and the top one carries the drag handlers only
\* while it is not exiting
rendered == isHydrated /\ markets # <<>>
bound == rendered /\ exitDirection = Null

\* what a handler call leaves pending: its timeouts in the order of their
\* delays, whether its animation frame callback is pending, and the
\* markets.length its closures captured
scheduled(timeouts, frame, n) == [timeouts |-> timeouts, frame |-> frame, n |-> n]

counted(kind) == [gestures EXCEPT ![kind] = @ + 1]
nGestures == gestures.skip + gestures.rewind + gestures.swipe + gestures.tap

\* the Skip button of a card (swipe mode)
handleSkip ==
    /\ rendered /\ interactionMode # "tap" /\ ~pointer.down
    /\ nGestures < MaxGestures
    /\ exitDirection' = "skip-up"
    /\ callbacks' = Append(callbacks,
                       scheduled(<<"skip-down", "advance">>, FALSE, Len(markets)))
    /\ gestures' = counted("skip")
    /\ UNCHANGED <<markets, currentIndex, dragState, pointer, betPending, bets,
                   nMarketChanges>>
    /\ UNCHANGED <<hookVars, built, rest, panelVars, pageVars, settingsVars>>

\* the Back button of a card (swipe mode)
handleRewindNoWrap ==
    /\ rendered /\ interactionMode # "tap" /\ ~pointer.down
    /\ nGestures < MaxGestures
    /\ currentIndex' = rem(currentIndex - 1, Len(markets))
    /\ exitDirection' = "rewind-start"
    /\ callbacks' = Append(callbacks,
                       scheduled(<<"rewind-down", "reset">>, TRUE, Len(markets)))
    /\ gestures' = counted("rewind")
    /\ UNCHANGED <<markets, dragState, pointer, betPending, bets, nMarketChanges>>
    /\ UNCHANGED <<hookVars, built, rest, panelVars, pageVars, settingsVars>>

handleRewind ==
    /\ rendered /\ interactionMode # "tap" /\ ~pointer.down
    /\ nGestures < MaxGestures
    /\ currentIndex' = rem(currentIndex - 1 + Len(markets), Len(markets))
    /\ exitDirection' = "rewind-start"
    /\ callbacks' = Append(callbacks,
                       scheduled(<<"rewind-down", "reset">>, TRUE, Len(markets)))
    /\ gestures' = counted("rewind")
    /\ UNCHANGED <<markets, dragState, pointer, betPending, bets, nMarketChanges>>
    /\ UNCHANGED <<hookVars, built, rest, panelVars, pageVars, settingsVars>>

\* onBet(market, outcomeId): the page's handleBet; when it goes on to
\* request a quote (wallet connected) the isPending prop becomes true
onBet(market, outcomeId, connected) ==
    /\ bets' = Append(bets, [market |-> market, outcomeId |-> outcomeId])
    /\ betPending' = connected

\* the Yes / No buttons of the top card (tap mode), disabled={isPending}
tapBet(yes, connected) ==
    /\ rendered /\ interactionMode = "tap" /\ ~pointer.down
    /\ ~betPending
    /\ nGestures < MaxGestures
    /\ gestures' = counted("tap")
    /\ LET orderedOutcomes == sortBinaryOutcomes(outcomesOf(topCard))
       IN  onBet(topCard,
                 IF yes THEN orderedOutcomes[1].id ELSE orderedOutcomes[2].id,
                 connected)
    /\ UNCHANGED <<markets, currentIndex, dragState, exitDirection, callbacks,
                   pointer, nMarketChanges>>
    /\ UNCHANGED <<hookVars, built, rest, panelVars, pageVars, settingsVars>>

Movements == {0 - 120, 0 - 60, 30, 120}
PointerUp == [down |-> FALSE, x |-> 0, fast |-> FALSE]

\* useDrag handler, active: the pointer is down on the top card and moves.
\* mx: movement[0]; fast: velocity[0] > 0.5
dragMove(mx, fast) ==
    /\ bound
    /\ pointer' = [down |-> TRUE, x |-> mx, fast |-> fast]
    /\ pointer' # pointer
    /\ dragState' = IF betPending THEN dragState
                    ELSE [x |-> mx, y |-> 0, isActive |-> TRUE]
    /\ UNCHANGED <<markets, currentIndex, exitDirection, callbacks, betPending,
                   bets, gestures, nMarketChanges>>
    /\ UNCHANGED <<hookVars, built, rest, panelVars, pageVars, settingsVars>>

shouldSwipe(mx, fast) == abs(mx) > SWIPE_THRESHOLD \/ (fast /\ abs(mx) > 50)

\* useDrag handler, not active: the pointer is released where it last was
dragRelease(connected) ==
    /\ pointer.down
    /\ pointer' = PointerUp
    /\ LET mx == pointer.x
           fast == pointer.fast
           direction == IF mx > 0 THEN "right" ELSE "left"
           advance == scheduled(<<"advance">>, FALSE, Len(markets))
       IN  IF ~bound \/ betPending
           THEN UNCHANGED <<dragState, exitDirection, callbacks, betPending,
                            bets, gestures>>
           ELSE IF ~shouldSwipe(mx, fast)
           THEN /\ dragState' = NoDrag
                /\ UNCHANGED <<exitDirection, callbacks, betPending, bets, gestures>>
           ELSE IF interactionMode = "tap"
           THEN \* handleSwipeTapMode
                /\ nGestures < MaxGestures
                /\ exitDirection' = direction
                /\ callbacks' = Append(callbacks, advance)
                /\ gestures' = counted("swipe")
                /\ UNCHANGED <<dragState, betPending, bets>>
           ELSE IF currentMarket = <<>>
           THEN \* handleSwipeSwipeMode: if (!currentMarket) return
                UNCHANGED <<dragState, exitDirection, callbacks, betPending,
                            bets, gestures>>
           ELSE \* handleSwipeSwipeMode
                /\ nGestures < MaxGestures
                /\ exitDirection' = direction
                /\ LET orderedOutcomes ==
                           sortBinaryOutcomes(outcomesOf(currentMarket[1]))
                       k == IF direction = "right" THEN 1 ELSE 2
                   IN  IF k <= Len(orderedOutcomes)
                       THEN onBet(currentMarket[1], orderedOutcomes[k].id, connected)
                       ELSE UNCHANGED <<betPending, bets>>
                /\ callbacks' = Append(callbacks, advance)
                /\ gestures' = counted("swipe")
                /\ UNCHANGED dragState
    /\ UNCHANGED <<markets, currentIndex, nMarketChanges>>
    /\ UNCHANGED <<hookVars, built, rest, panelVars, pageVars, settingsVars>>

\* what remains of a handler call once one of its callbacks has run
remaining(i, entry) ==
    IF entry.timeouts = <<>> /\ ~entry.frame
    THEN without(callbacks, i)
    ELSE [callbacks EXCEPT ![i] = entry]

\* the next setTimeout callback of a handler call fires
timeoutFires(i) ==
    /\ i \in DOMAIN callbacks
    /\ callbacks[i].timeouts # <<>>
    /\ LET cb == Head(callbacks[i].timeouts)
           n == callbacks[i].n
       IN  /\ currentIndex' = IF cb = "advance" THEN rem(currentIndex + 1, n)
                              ELSE currentIndex
           /\ exitDirection' = IF cb \in {"advance", "reset"} THEN Null ELSE cb
           /\ dragState' = IF cb \in {"advance", "reset"} THEN NoDrag
                           ELSE dragState
    /\ callbacks' = remaining(i, [callbacks[i] EXCEPT !.timeouts = Tail(@)])
    /\ UNCHANGED <<markets, pointer, betPending, bets, gestures, nMarketChanges>>
    /\ UNCHANGED <<hookVars, built, rest, panelVars, pageVars, settingsVars>>

\* the second requestAnimationFrame callback of a rewind runs
frameFires(i) ==
    /\ i \in DOMAIN callbacks
    /\ callbacks[i].frame
    /\ exitDirection' = "rewind-up"
    /\ callbacks' = remaining(i, [callbacks[i] EXCEPT !.frame = FALSE])
    /\ UNCHANGED <<markets, currentIndex, dragState, pointer, betPending, bets,
                   gestures, nMarketChanges>>
    /\ UNCHANGED <<hookVars, built, rest, panelVars, pageVars, settingsVars>>

\* the page passes another list: refetched data, another filter's cached
\* data, or a market dropped by the expiry filter
marketsChange(list) ==
    /\ isHydrated
    /\ nMarketChanges < MaxMarketChanges
    /\ list # markets
    /\ markets' = list
    /\ nMarketChanges' = nMarketChanges + 1
    /\ UNCHANGED <<currentIndex, dragState, exitDirection, callbacks, pointer,
                   betPending, bets, gestures>>
    /\ UNCHANGED <<hookVars, built, rest, panelVars, pageVars, settingsVars>>

\* the page's bet has settled: the isPending prop is false again
betSettles ==
    /\ betPending
    /\ betPending' = FALSE
    /\ UNCHANGED <<markets, currentIndex, dragState, exitDirection, callbacks,
                   pointer, bets, gestures, nMarketChanges>>
    /\ UNCHANGED <<hookVars, built, rest, panelVars, pageVars, settingsVars>>

StackNext ==
    \/ \E m \in InteractionModes : hydrate(<<>>, <<m>>)
    \/ \E list \in MarketLists : marketsChange(list)
    \/ handleSkip
    \/ handleRewind
    \/ \E yes \in BOOLEAN, c \in BOOLEAN : tapBet(yes, c)
    \/ \E mx \in Movements, fast \in BOOLEAN : dragMove(mx, fast)
    \/ \E c \in BOOLEAN : dragRelease(c)
    \/ \E i \in 1..MaxGestures : timeoutFires(i)
    \/ \E i \in 1..MaxGestures : frameFires(i)
    \/ betSettles

\* the page renders the stack for a connected account (page.tsx:130-132)
StackInit == Init /\ hook = "useTrade" /\ address = USER

StackSpec == StackInit /\ [][StackNext]_vars

-----------------------------------------------------------------------------
(* Swipe page (app/page.tsx): handleBet first requests a quote and then     *)
(* calls trade() of the tracker modelled above.                             *)

\* CardStack's isPending prop: isTradePending || quoteMutation.isPending
pageIsPending == isPending \/ quoteMutation = "pending"

\* onBet from a swipe or from a Yes / No button: handleBet up to
\* `await quoteMutation.mutateAsync(...)`.  The stack ignores drags and
\* disables the buttons while its isPending prop is true, and is rendered
\* for a connected account only.
handleBet ==
    /\ hook = "useTrade"
    /\ address # Null
    /\ ~pageIsPending
    /\ nAttempts < MaxAttempts
    /\ quoteMutation' = "pending"
    /\ UNCHANGED <<hookVars, built, rest, panelVars, stackVars, settingsVars>>

\* getQuote rejects: handleBet's catch block
quoteReject ==
    /\ quoteMutation = "pending"
    /\ quoteMutation' = "error"
    /\ UNCHANGED <<hookVars, built, rest, panelVars, stackVars, settingsVars>>

\* getQuote resolves: handleBet goes on to `await trade({ action: "buy", ... })`
quoteResolve(params, abstractClient) ==
    /\ quoteMutation = "pending"
    /\ params.action = "buy"
    /\ trade("swipe", params, abstractClient)

PageNext ==
    \/ handleBet
    \/ quoteReject
    \/ \E p \in TradeParamsSet, c \in BOOLEAN : quoteResolve(p, c)
    \/ \E a \in AttemptIds : sendCallsResolve(a)
    \/ \E a \in AttemptIds : sendCallsReject(a)
    \/ \E r \in {"pending", "success", "failure", "error"} : pollCallsStatus(r)
    \/ resetTimer

PageInit == Init /\ hook = "useTrade" /\ address = USER

PageSpec == PageInit /\ [][PageNext]_vars

-----------------------------------------------------------------------------
(* Properties *)

Terminal == {"success", "failure"}
Issued == {BundleIdOf(n) : n \in 1..nBundles}

\* When attempt a was started nothing of an earlier attempt was in flight
\* (no wallet request, no bundle being confirmed), and no other attempt was
\* started before a's wallet request settled.
Quiet(a) ==
    /\ attempts[a].solo
    /\ attempts[a].startStatus \in {"idle", "confirmed", "failed"}

\* C1: an attempt whose pre-submission check or wallet submission throws
\* before a bundle id is obtained leaves the status "failed", and from its
\* start until the reset to "idle" (or the start of a later attempt) the
\* status is never "confirming" or "confirmed".  Stated for attempts that do not overlap another attempt's
\* submission or confirmation, which includes an attempt started while the
\* snapshot and cool-down timer of an earlier, finished attempt are live.
C1_ThrownAttemptEndsFailed ==
    \A a \in AttemptIds :
        (attempts[a].pc = "thrown" /\ Quiet(a))
            => (attempts[a].endedFailed /\ ~attempts[a].sawConfirm)

\* C2: once the tracker is "confirming" with a bundle id whose status is
\* not terminal yet, that id stays the tracked id (reset() apart).  Stated
\* for steps in which no other wallet request is in flight, so the step
\* cannot be the overwrite by a second submission.
C2_TrackedBundleStaysTracked ==
    [][(/\ status = "confirming"
        /\ bundleId # Null
        /\ callsStatus.status \notin Terminal
        /\ \A a \in AttemptIds : attempts[a].pc # "awaiting"
        /\ resets' = resets)
       => bundleId' = bundleId]_vars

C4_OneFailureNotification ==
    \A b \in BundleIds :
        (nAttempts = 1 /\ bundles[b].polls = 3 /\ bundles[b].snap = "failure")
            => (bundles[b].errToasts = 1 /\ bundles[b].okToasts = 0)

\* C5: for a bundle whose status was observed as "success" the success
\* handling ran exactly once (one notification, one invalidation of the
\* market cache) and the notification names the action of the attempt that
\* produced the bundle.  Stated for a hook instance on which this is the
\* only attempt.
C5_SuccessHandledOnce ==
    \A b \in BundleIds :
        (nAttempts = 1 /\ bundles[b].snap = "success")
            => /\ bundles[b].okToasts = 1
               /\ bundles[b].marketInval = 1
               /\ bundles[b].labels =
                     {titleOfAction(attempts[ownerOf(b, attempts)].action)}

\* C6: whenever the status is "confirmed" or "failed" it returns to "idle"
\* without user action (the scheduled reset fires), and the step that takes
\* it from "confirmed"/"failed" to "idle" leaves currentAction and bundleId
\* null.
C6_CoolDownResetsToIdle ==
    /\ [][(status \in {"confirmed", "failed"} /\ status' = "idle")
            => (currentAction' = Null /\ bundleId' = Null)]_vars
    /\ [](status \in {"confirmed", "failed"} => timers # <<>>)
    /\ (status \in {"confirmed", "failed"}) ~> (status = "idle")

C6_Witness ==
    /\ status = "idle"
    /\ currentAction = Null
    /\ bundleId = Null
    /\ timers = <<>>
    /\ resets = 0
    /\ \E b \in BundleIds : bundles[b].snap = "success"
    /\ \E a \in AttemptIds : attempts[a].pc = "thrown" /\ attempts[a].sends = 1

\* C7: every trade()/claim() call leads to at most one sendCallsAsync call,
\* and a sendCallsAsync call is only made by the step that starts a new
\* attempt: nothing is resubmitted after a rejection or an on-chain failure.
C7_NoAutomaticResubmission ==
    /\ [](\A a \in AttemptIds : attempts[a].sends <= 1)
    /\ [][\A a \in AttemptIds :
            attempts'[a].sends # attempts[a].sends
              => (a = nAttempts + 1 /\ nAttempts' = a)]_vars

C7_Witness ==
    /\ nAttempts = 2
    /\ attempts[1].pc = "thrown" /\ attempts[1].sends = 1
    /\ attempts[2].pc = "submitted" /\ attempts[2].sends = 1
    /\ bundles[attempts[2].bundle].snap = "failure"
    /\ status = "idle"
    /\ timers = <<>>

\* C8: every attempt that ended in "failed" was surfaced by a failure
\* notification: a bundle observed as "failure" has a failure toast, and an
\* attempt whose wallet submission was rejected has one (from the hook's
\* onError or from the caller's catch block).
C8_EveryFailureIsNotified ==
    /\ \A b \in BundleIds : bundles[b].snap = "failure" => bundles[b].errToasts >= 1
    /\ \A a \in AttemptIds :
          (attempts[a].pc = "thrown" /\ attempts[a].sends = 1)
             => attempts[a].notified

\* C9: there is one bundleId slot.  When a submission returns, its bundle id
\* becomes the tracked id, also while an earlier bundle is still being
\* confirmed; a bundle id that is no longer the tracked one is never polled
\* again and gets no further success or failure notification.
C9_SecondBundleOverwritesFirst ==
    /\ [][\A a \in AttemptIds :
            (attempts[a].pc = "awaiting" /\ attempts'[a].pc = "submitted")
              => bundleId' = attempts'[a].bundle]_vars
    /\ [][\A b \in BundleIds :
            (b \in Issued /\ bundleId # b) => bundles'[b] = bundles[b]]_vars

C9_Witness ==
    /\ nAttempts = 2
    /\ attempts[2].startStatus = "confirming"
    /\ attempts[1].pc = "submitted" /\ attempts[2].pc = "submitted"
    /\ bundleId = attempts[2].bundle
    /\ bundles[attempts[1].bundle].snap = "pending"
    /\ bundles[attempts[1].bundle].okToasts + bundles[attempts[1].bundle].errToasts = 0
    /\ bundles[attempts[2].bundle].snap = "success"

\* C10: buildBuyTransaction returns exactly two calls, the ERC-20 approve
\* to tokenAddress first and referralBuy to predictionMarketAddress second,
\* and the calls useTrade hands to sendCallsAsync for a buy are these two in
\* this order.
BuildBuyParamsSet ==
    [marketId : {7, 42},
     outcomeId : {0, 1},
     value : {Amount(10, <<>>), Amount(10, <<5>>), Amount(0, <<0, 1>>)},
     minShares : {Amount(9, <<5>>), Amount(0, <<>>)},
     tokenAddress : {USDC_ADDRESS, PENGU_ADDRESS},
     tokenDecimals : {0, 2, 6},
     predictionMarketAddress : {PREDICTION_MARKET},
     referralCode : {Undefined, "", "partner"}]

IsApproveThenBuy(calls, tokenAddresses, predictionMarketAddress) ==
    /\ Len(calls) = 2
    /\ calls[1].to \in tokenAddresses
    /\ calls[1].data.fn = "approve"
    /\ calls[2].to = predictionMarketAddress
    /\ calls[2].data.fn = "referralBuy"

BuildBuyShape ==
    \A p \in BuildBuyParamsSet :
        /\ ~buildBuyTransaction(p).threw
        /\ IsApproveThenBuy(buildBuyTransaction(p).calls, {p.tokenAddress},
                            p.predictionMarketAddress)

-----------------------------------------------------------------------------
BuildSellParamsSet ==
    [marketId : {7, 42},
     outcomeId : {0, 1},
     value : {Amount(10, <<>>), Amount(10, <<5>>), Amount(0, <<0, 1>>)},
     maxShares : {Amount(10, <<5>>), Amount(0, <<>>)},
     tokenDecimals : {0, 2, 6},
     predictionMarketAddress : {PREDICTION_MARKET},
     referralCode : {Undefined, "", "partner"}]

CodeOf(params) ==
    IF params.referralCode = Undefined THEN "" ELSE params.referralCode

IsReferralSell(calls, params) ==
    /\ Len(calls) = 1
    /\ calls[1].to = params.predictionMarketAddress
    /\ calls[1].data.fn = "referralSell"
    /\ calls[1].data.args =
          <<params.marketId, params.outcomeId,
            parseUnits(toString(params.value), params.tokenDecimals),
            parseUnits(toString(params.maxShares), params.tokenDecimals),
            CodeOf(params)>>

BuildSellShape ==
    \A p \in BuildSellParamsSet :
        /\ ~buildSellTransaction(p).threw
        /\ IsReferralSell(buildSellTransaction(p).calls, p)

-----------------------------------------------------------------------------
FracDigits(v) == Len(stripTrailingZeros(v.frac))

\* The integer v * 10^d of a human amount v with at most d fraction digits
ExactScaled(v, d) ==
    LET f == stripTrailingZeros(v.frac)
    IN  v.int * Pow10(d) + DigitsValue(f) * Pow10(d - Len(f))

BuyAmountsExact(params, result) ==
    LET d == params.tokenDecimals
    IN  (FracDigits(params.value) <= d /\ FracDigits(params.minShares) <= d)
           => /\ ~result.threw
              /\ result.calls[1].data.args[2] = ExactScaled(params.value, d)
              /\ result.calls[2].data.args[4] = ExactScaled(params.value, d)
              /\ result.calls[2].data.args[3] = ExactScaled(params.minShares, d)

SellAmountsExact(params, result) ==
    LET d == params.tokenDecimals
    IN  (FracDigits(params.value) <= d /\ FracDigits(params.maxShares) <= d)
           => /\ ~result.threw
              /\ result.calls[1].data.args[3] = ExactScaled(params.value, d)
              /\ result.calls[1].data.args[4] = ExactScaled(params.maxShares, d)

\* C12: for a human amount with at most d fraction digits, every amount the
\* builders encode (approve amount, buy/sell value, min/max shares) is the
\* integer v * 10^d, value and threshold scaled with the same tokenDecimals.
C12_AmountsScaledExactly ==
    \A i \in 1..Len(built) :
        /\ built[i].builder = "buildBuyTransaction"
              => BuyAmountsExact(built[i].params, built[i].result)
        /\ built[i].builder = "buildSellTransaction"
              => SellAmountsExact(built[i].params, built[i].result)

-----------------------------------------------------------------------------
ApproveMatchesBuy(calls, params) ==
    LET approve == calls[1].data
        buy == calls[2].data
    IN  /\ approve.fn = "approve"
        /\ approve.args[1] = params.predictionMarketAddress
        /\ approve.args[2] =
              parseUnits(toString(params.value), params.tokenDecimals)
        /\ buy.fn = "referralBuy"
        /\ buy.args = <<params.marketId, params.outcomeId,
                        parseUnits(toString(params.minShares),
                                   params.tokenDecimals),
                        approve.args[2], CodeOf(params)>>

\* spec.md scenario: buy 10 USDC (6 decimals), outcome 0 of market 42,
\* min-shares floor 9.5, no referral code
ScenarioBuyParams ==
    [marketId |-> 42, outcomeId |-> 0, value |-> Amount(10, <<>>),
     minShares |-> Amount(9, <<5>>), tokenAddress |-> USDC_ADDRESS,
     tokenDecimals |-> 6, predictionMarketAddress |-> PREDICTION_MARKET,
     referralCode |-> Undefined]

ScenarioBuyCalls ==
    <<TransactionCall(USDC_ADDRESS,
         encodeFunctionData("approve", <<PREDICTION_MARKET, 10000000>>)),
      TransactionCall(PREDICTION_MARKET,
         encodeFunctionData("referralBuy", <<42, 0, 9500000, 10000000, "">>))>>

BuildBuyArguments ==
    \A p \in BuildBuyParamsSet :
        ApproveMatchesBuy(buildBuyTransaction(p).calls, p)

\* C13: in every buy the approve call names predictionMarketAddress as the
\* spender and its amount is the scaled spend amount, the same integer as
\* the value argument of referralBuy(marketId, outcomeId, minSharesScaled,
\* valueScaled, code); the scenario of spec.md gives
\* approve(predictionMarket, 10000000), referralBuy(42, 0, 9500000, 10000000, "").
C13_ApproveAmountIsBuyValue ==
    /\ BuildBuyArguments
    /\ \A i \in 1..Len(built) :
          /\ (built[i].builder = "buildBuyTransaction" /\ ~built[i].result.threw)
                => ApproveMatchesBuy(built[i].result.calls, built[i].params)
          /\ (built[i].builder = "buildBuyTransaction"
               /\ built[i].params = ScenarioBuyParams)
                => built[i].result = Returned(ScenarioBuyCalls)

C13_Witness ==
    \E i \in 1..Len(built) :
        /\ built[i].builder = "buildBuyTransaction"
        /\ built[i].params = ScenarioBuyParams
        /\ built[i].result.calls[1].data.args[2] = 10000000
        /\ built[i].result.calls[2].data.args[4] = 10000000

-----------------------------------------------------------------------------
IsOneCall(result, to, fn, args) ==
    result = Returned(<<TransactionCall(to, encodeFunctionData(fn, args))>>)

\* C14: buildClaimWinningsTransaction and buildClaimVoidedTransaction each
\* return exactly one call, to the prediction-market address, encoding
\* claimWinnings(marketId) resp. claimVoidedOutcomeShares(marketId,
\* outcomeId) with the ids as given; market 7, outcome 1 gives
\* claimVoidedOutcomeShares(7, 1).
C14_ClaimBuildersOneCall ==
    \A i \in 1..Len(built) :
        LET p == built[i].params
        IN  /\ built[i].builder = "buildClaimWinningsTransaction"
                  => IsOneCall(built[i].result, p.predictionMarketAddress,
                               "claimWinnings", <<p.marketId>>)
            /\ built[i].builder = "buildClaimVoidedTransaction"
                  => IsOneCall(built[i].result, p.predictionMarketAddress,
                               "claimVoidedOutcomeShares",
                               <<p.marketId, p.outcomeId>>)

C14_Witness ==
    /\ \E i \in 1..Len(built) :
          /\ built[i].builder = "buildClaimVoidedTransaction"
          /\ built[i].params.marketId = 7
          /\ built[i].params.outcomeId = 1
          /\ built[i].result.calls[1].data =
                encodeFunctionData("claimVoidedOutcomeShares", <<7, 1>>)
    /\ \E i \in 1..Len(built) :
          /\ built[i].builder = "buildClaimWinningsTransaction"
          /\ built[i].result.calls[1].data =
                encodeFunctionData("claimWinnings", <<42>>)

-----------------------------------------------------------------------------
-----------------------------------------------------------------------------
SelectedBuilderResult(builder, p) ==
    IF builder = "buildTradeTransaction"
    THEN IF p.action = "buy"
         THEN buildBuyTransaction(
                 [marketId |-> p.marketId, outcomeId |-> p.outcomeId,
                  value |-> p.value, minShares |-> p.sharesThreshold,
                  tokenAddress |-> p.tokenAddress,
                  tokenDecimals |-> p.tokenDecimals,
                  predictionMarketAddress |-> p.predictionMarketAddress,
                  referralCode |-> p.referralCode])
         ELSE buildSellTransaction(
                 [marketId |-> p.marketId, outcomeId |-> p.outcomeId,
                  value |-> p.value, maxShares |-> p.sharesThreshold,
                  tokenDecimals |-> p.tokenDecimals,
                  predictionMarketAddress |-> p.predictionMarketAddress,
                  referralCode |-> p.referralCode])
    ELSE IF p.action = "claim_winnings"
         THEN buildClaimWinningsTransaction(
                 [marketId |-> p.marketId,
                  predictionMarketAddress |-> p.predictionMarketAddress])
         ELSE buildClaimVoidedTransaction(
                 [marketId |-> p.marketId, outcomeId |-> p.outcomeId,
                  predictionMarketAddress |-> p.predictionMarketAddress])

\* C16: buildTradeTransaction returns exactly what buildBuyTransaction
\* (minShares = sharesThreshold) resp. buildSellTransaction (maxShares =
\* sharesThreshold) returns, and buildClaimTransaction exactly what
\* buildClaimWinningsTransaction resp. buildClaimVoidedTransaction returns
\* for the same ids and address.
C16_DispatchersEquivalent ==
    \A i \in 1..Len(built) :
        built[i].builder \in {"buildTradeTransaction", "buildClaimTransaction"}
           => built[i].result
                 = SelectedBuilderResult(built[i].builder, built[i].params)

C16_Witness ==
    /\ Len(built) = 3
    /\ built[1].builder = "buildTradeTransaction"
    /\ built[1].params.action = "sell"
    /\ built[1].params.value = Amount(10, <<>>)
    /\ Len(built[1].result.calls) = 1
    /\ built[2].builder = "buildTradeTransaction"
    /\ built[2].params.action = "buy"
    /\ Len(built[2].result.calls) = 2
    /\ built[3].builder = "buildClaimTransaction"
    /\ built[3].params.action = "claim_voided"
    /\ built[3].result.calls[1].data.fn = "claimVoidedOutcomeShares"

-----------------------------------------------------------------------------
InputErrors == {"Invalid claim parameters", "Wallet not connected"}

\* C17: a claim_voided claim without outcomeId, and a trade or claim without
\* a connected wallet address, is rejected before any wallet submission:
\* sendCallsAsync is not called, the attempt gets no bundle id, it is not
\* sent again, and it leaves the status "failed".  (Quiet as in C1.)
C17_InvalidInputRejectedUpFront ==
    \A a \in AttemptIds :
        (attempts[a].pc = "thrown" /\ attempts[a].error \in InputErrors)
           => /\ attempts[a].sends = 0
              /\ attempts[a].bundle = Null
              /\ Quiet(a) => attempts[a].endedFailed

-----------------------------------------------------------------------------
\* C19: an attempt that is still waiting for its signature (status
\* approving / pending_signature, no bundle id of its own, nothing of an
\* earlier attempt in flight when it started) is never shown as "confirmed":
\* "confirmed" is reached from "confirming" on the attempt's own bundle.
C19_AwaitingAttemptNotConfirmed ==
    \A a \in AttemptIds :
        (attempts[a].pc = "awaiting" /\ Quiet(a)) => status # "confirmed"

-----------------------------------------------------------------------------
\* A step in which a status request returns "failure" for bundle b
ObservesFailure(b) ==
    bundles[b].snap # "failure" /\ bundles'[b].snap = "failure"

\* A step in which the wallet request of attempt a is rejected
SubmissionThrows(a) ==
    /\ attempts[a].pc = "awaiting"
    /\ attempts'[a].pc = "thrown"
    /\ attempts'[a].error = "sendCallsAsync rejected"

\* C20: caches are invalidated only on an observed success.  A bundle that
\* ends in "failure" never has the market or portfolio cache invalidated;
\* observing the failure only sets the status "failed", shows the failure
\* notification and schedules the reset; a rejected submission only sets
\* "failed" and schedules the reset.
C20_InvalidateOnlyOnSuccess ==
    /\ [](\A b \in BundleIds :
            bundles[b].snap # "success"
               => (bundles[b].marketInval = 0 /\ bundles[b].portfolioInval = 0))
    /\ [][\A b \in BundleIds :
            (bundles'[b].marketInval # bundles[b].marketInval
             \/ bundles'[b].portfolioInval # bundles[b].portfolioInval)
               => (bundleId' = b /\ bundles'[b].snap = "success")]_vars
    /\ [][\A b \in BundleIds :
            ObservesFailure(b)
               => /\ status' = "failed"
                  /\ bundles' = [bundles EXCEPT
                                    ![b].snap = "failure",
                                    ![b].polls = @ + 1,
                                    ![b].errToasts = @ + 1]
                  /\ timers' = Append(timers, ownerOf(b, attempts))
                  /\ UNCHANGED <<bundleId, currentAction>>]_vars
    /\ [][\A a \in AttemptIds :
            SubmissionThrows(a)
               => /\ status' = "failed"
                  /\ bundles' = bundles
                  /\ timers' = Append(timers, a)
                  /\ UNCHANGED <<bundleId, currentAction>>]_vars

C20_Witness ==
    /\ \E b \in BundleIds :
          /\ bundles[b].snap = "failure"
          /\ bundles[b].errToasts = 1
          /\ bundles[b].marketInval = 0
    /\ \E a \in AttemptIds :
          /\ attempts[a].pc = "thrown"
          /\ attempts[a].error = "sendCallsAsync rejected"
          /\ attempts[a].sends = 1

-----------------------------------------------------------------------------
\* The camelCase form of a snake_case key: every underscore that is followed
\* by a letter or digit is dropped and that character, if a letter, is
\* written in upper case.
RECURSIVE CamelForm(_)
CamelForm(key) ==
    IF Len(key) = 0 THEN <<>>
    ELSE IF key[1] = "_" /\ Len(key) >= 2
            /\ (IsLower(key[2]) \/ key[2] \in Digits)
    THEN <<toUpperCase(key[2])>> \o CamelForm(SubSeq(key, 3, Len(key)))
    ELSE <<key[1]>> \o CamelForm(Tail(key))

\* The received value with every key, at every depth, in camelCase form
RECURSIVE InCamelCase(_)
InCamelCase(v) ==
    IF v.kind = "array"
    THEN Arr([i \in 1..Len(v.items) |-> InCamelCase(v.items[i])])
    ELSE IF v.kind = "object"
    THEN Obj([i \in 1..Len(v.keys) |-> CamelForm(v.keys[i])],
             [i \in 1..Len(v.items) |-> InCamelCase(v.items[i])])
    ELSE v

IsSnakeCaseOf(sent, key) ==
    /\ \A i \in 1..Len(sent) : ~IsUpper(sent[i])
    /\ CamelForm(sent) = key

\* C18: every response is delivered with every key of every object, at
\* every depth and inside arrays, in camelCase form (volume_24h arrives as
\* volume24h) and with the values unchanged; every query parameter key is
\* sent in snake_case form.
C18_ResponseKeysCamelCase ==
    \A i \in 1..Len(rest) :
        /\ ~rest[i].threw => rest[i].delivered = InCamelCase(rest[i].received)
        /\ \A j \in 1..Len(rest[i].query) :
              \E k \in {k_page, k_limit, k_sort, k_order, k_networkId, k_state,
                         k_tokenAddress, k_topics, k_keyword, k_marketId,
                         k_marketSlug, k_since, k_until} :
                  IsSnakeCaseOf(rest[i].query[j].key, k)

-----------------------------------------------------------------------------
\* Attempt b is the one the tracker is working on: waiting for its wallet
\* request, or its bundle is the tracked one and is being confirmed
Active(b) ==
    \/ attempts[b].pc = "awaiting"
    \/ /\ attempts[b].pc = "submitted"
       /\ attempts[b].bundle = bundleId
       /\ status = "confirming"

\* C21: the cool-down reset scheduled by an attempt never changes status,
\* currentAction or bundleId of a later attempt that was started before the
\* timer fired and is still waiting for its signature or being confirmed.
C21_ResetLeavesLaterAttemptAlone ==
    [][(timers # <<>> /\ timers' = Tail(timers))
         => \A b \in AttemptIds :
               (b > Head(timers) /\ Active(b))
                  => UNCHANGED <<status, currentAction, bundleId>>]_vars

\* C22: status "idle" implies bundleId = null, and status "confirming" or
\* "confirmed" implies bundleId is not null.
C22_StatusMatchesBundleId ==
    /\ status = "idle" => bundleId = Null
    /\ status \in {"confirming", "confirmed"} => bundleId # Null

C22_Witness ==
    /\ status = "idle"
    /\ bundleId = Null
    /\ resets = 1
    /\ \E a \in AttemptIds : attempts[a].pc = "submitted"
    /\ \E b \in BundleIds : bundles[b].snap = "success"

-----------------------------------------------------------------------------
\* C23: whenever the status of useTrade is "approving", "pending_signature"
\* or "confirming", isPending or isConfirming is true, so the submit button
\* of the trade panel is disabled.
C23_SubmitDisabledWhileInFlight ==
    (hook = "useTrade"
     /\ status \in {"approving", "pending_signature", "confirming"})
        => (isPending \/ isConfirming)

-----------------------------------------------------------------------------
\* C29: the quick bet amount the provider exposes to its children is always
\* above 0 and at most 1000, whatever was loaded from localStorage on mount
\* and whatever setQuickBetAmount was called with.
C29_QuickBetAmountInRange ==
    isHydrated => (quickBetAmount > 0 /\ quickBetAmount <= 1000)

-----------------------------------------------------------------------------
\* C24: whenever the trade panel allows a submission (a quote is held and no
\* quote is loading), the held quote was requested for the amount, the action
\* and the outcome the form shows now.
C24_QuoteMatchesForm ==
    (quote # <<>> /\ ~isLoadingQuote)
       => quote[1].request = fetchQuote(amount, action, selectedOutcomeId)

-----------------------------------------------------------------------------
\* C27: whenever the card stack has markets to show, currentIndex is an
\* index of the list (0 <= currentIndex < markets.length), so the top card
\* markets[currentIndex] is defined.
C27_CurrentIndexInRange ==
    rendered => (currentIndex >= 0 /\ currentIndex < Len(markets))

-----------------------------------------------------------------------------
\* C25: a release the stack accepts bets exactly once in swipe mode when it
\* is a committed swipe (right: first outcome of sortBinaryOutcomes of the
\* top card's market, left: second), never bets but advances in tap mode,
\* and neither bets nor advances when it is below the threshold.
Released == pointer.down /\ ~pointer'.down
Accepted == bound /\ ~betPending
Committed == shouldSwipe(pointer.x, pointer.fast)
SwipedOutcome ==
    sortBinaryOutcomes(outcomesOf(topCard))[IF pointer.x > 0 THEN 1 ELSE 2].id
Advancing == gestures'.swipe = gestures.swipe + 1 /\ Len(callbacks') = Len(callbacks) + 1

C25_SwipeBetsOnceForTopCard ==
    [][(Released /\ Accepted) =>
          IF Committed /\ interactionMode # "tap"
          THEN bets' = Append(bets, [market |-> topCard, outcomeId |-> SwipedOutcome])
               /\ Advancing
          ELSE IF Committed
          THEN bets' = bets /\ Advancing
          ELSE UNCHANGED <<bets, currentIndex, exitDirection, callbacks, gestures>>]_vars

-----------------------------------------------------------------------------
\* C28: once no callback of a skip, rewind or swipe is pending and the
\* pointer is up, the stack is at rest: exitDirection is null and dragState
\* is {x: 0, y: 0, isActive: false}.
C28_AnimationsFinish ==
    (rendered /\ callbacks = <<>> /\ ~pointer.down)
       => (exitDirection = Null /\ dragState = NoDrag)

-----------------------------------------------------------------------------
\* C30: on the list the stack was given, skips and rewinds are inverse: at
\* any moment, also inside the animations, the card position plus the
\* advances still to come is the number of forward moves minus the number of
\* rewinds, modulo the number of markets; so a skip and a rewind in either
\* order, n skips, or n rewinds, lead back to the starting card.
PendingAdvances ==
    Cardinality({ i \in DOMAIN callbacks :
                    \E k \in DOMAIN callbacks[i].timeouts :
                        callbacks[i].timeouts[k] = "advance" })

-----------------------------------------------------------------------------
\* C26: on the swipe page handleBet never starts while an earlier bet is
\* unresolved: not while its quote is requested, not while the wallet
\* submission is awaited, and not while the tracker is approving, waiting
\* for the signature or confirming.
BetStarts == quoteMutation # "pending" /\ quoteMutation' = "pending"

C26_NoBetWhileEarlierUnresolved ==
    [][BetStarts =>
          /\ status \notin {"approving", "pending_signature", "confirming"}
          /\ \A a \in AttemptIds : attempts[a].pc # "awaiting"]_vars

====
